---- MODULE Spec2Model ----
(***************************************************************************)
(* Background import jobs of the import/export app: the in-memory job      *)
(* ledger (ImportJobManager), the four import drivers that run detached    *)
(* from the request that started them (collections, discounts,             *)
(* metaobjects, companies), the cancel route and the status poll.          *)
(*                                                                         *)
(* A step of the model is one uninterrupted run of JavaScript: a route     *)
(* handler, or the continuation of a driver after an awaited remote call   *)
(* returns, up to the next await on remote I/O or a timer.  Promise        *)
(* reactions (microtasks) run inside the step that caused them.            *)
(* createdAt/updatedAt are wall-clock timestamps; they are left out.       *)
(***************************************************************************)
EXTENDS Integers, Sequences, FiniteSets, TLC

VARIABLES importJobManager, drv, polled, retry, startReq, shop

vars == <<importJobManager, drv, polled, retry, startReq, shop>>

(***************************************************************************)
(* Bounds of the model                                                     *)
(***************************************************************************)
MaxRecords == 3
MaxMetaRecords == 6
MaxArg == 1
MaxResults == 2
PoolExtra == 1

(***************************************************************************)
(* Program constants                                                       *)
(***************************************************************************)
CONCURRENCY_LIMIT == 10
BATCH_SIZE == 5
SuccessDetailLimit == 10

JobIds == {"j1"}
UnknownId == "nope"
Statuses == {"pending", "processing", "completed", "failed", "cancelled"}
Terminal == {"completed", "failed", "cancelled"}
Titles == <<"t1", "t2", "t3", "t4", "t5", "t6", "t7", "t8", "t9", "t10", "t11", "t12">>
NoCompanyCount == <<>>
NoCall == [op |-> "none", id |-> UnknownId, before |-> "none"]

Max(a, b) == IF a >= b THEN a ELSE b
Min(a, b) == IF a <= b THEN a ELSE b

(***************************************************************************)
(* Array.prototype.slice(start): a negative start counts from the end.     *)
(***************************************************************************)
JsSlice(s, start) ==
  LET len == Len(s)
      st == IF start < 0 THEN Max(len + start, 0) ELSE Min(start, len)
  IN SubSeq(s, st + 1, len)

(***************************************************************************)
(* ImportJobManager.  M is the manager: M.jobs is its Map, M.lastCall      *)
(* records the most recent mutation call (method, id, and the status the   *)
(* job had when the call began, "none" for an unknown id).                 *)
(***************************************************************************)
HasJob(M, id) == id \in DOMAIN M.jobs

StatusOf(M, id) == IF HasJob(M, id) THEN M.jobs[id].status ELSE "none"

Called(M, op, id) == [op |-> op, id |-> id, before |-> StatusOf(M, id)]

SetJob(M, id, job) ==
  [i \in (DOMAIN M.jobs) \cup {id} |-> IF i = id THEN job ELSE M.jobs[i]]

createJob(M, id, entityType, totalRecords) ==
  [jobs |-> SetJob(M, id, [status |-> "pending",
                           entityType |-> entityType,
                           totalRecords |-> totalRecords,
                           processedRecords |-> 0,
                           successCount |-> 0,
                           errorCount |-> 0,
                           companyCount |-> NoCompanyCount,
                           results |-> <<>>]),
   lastCall |-> Called(M, "createJob", id)]

getJob(M, id) == M.jobs[id]

updateProgressMissingCancelGuard(M, id, processed, success, error, newResults, companyCount) ==
  IF ~HasJob(M, id)
  THEN [M EXCEPT !.lastCall = Called(M, "updateProgress", id)]
  ELSE LET job == M.jobs[id]
           s1 == IF job.status = "pending" THEN "processing" ELSE job.status
           s2 == IF processed >= job.totalRecords THEN "completed" ELSE s1
       IN [jobs |-> SetJob(M, id, [job EXCEPT
                      !.processedRecords = processed,
                      !.successCount = success,
                      !.errorCount = error,
                      !.companyCount = IF companyCount # NoCompanyCount
                                       THEN companyCount ELSE @,
                      !.results = @ \o newResults,
                      !.status = s2]),
           lastCall |-> Called(M, "updateProgress", id)]

updateProgressStaysPending(M, id, processed, success, error, newResults, companyCount) ==
  IF ~HasJob(M, id)
  THEN [M EXCEPT !.lastCall = Called(M, "updateProgress", id)]
  ELSE LET job == M.jobs[id]
           s1 == job.status
           s2 == IF processed >= job.totalRecords /\ s1 # "cancelled"
                 THEN "completed" ELSE s1
       IN [jobs |-> SetJob(M, id, [job EXCEPT
                      !.processedRecords = processed,
                      !.successCount = success,
                      !.errorCount = error,
                      !.companyCount = IF companyCount # NoCompanyCount
                                       THEN companyCount ELSE @,
                      !.results = @ \o newResults,
                      !.status = s2]),
           lastCall |-> Called(M, "updateProgress", id)]

updateProgressReplacesResults(M, id, processed, success, error, newResults, companyCount) ==
  IF ~HasJob(M, id)
  THEN [M EXCEPT !.lastCall = Called(M, "updateProgress", id)]
  ELSE LET job == M.jobs[id]
           s1 == IF job.status = "pending" THEN "processing" ELSE job.status
           s2 == IF processed >= job.totalRecords /\ s1 # "cancelled"
                 THEN "completed" ELSE s1
       IN [jobs |-> SetJob(M, id, [job EXCEPT
                      !.processedRecords = processed,
                      !.successCount = success,
                      !.errorCount = error,
                      !.companyCount = IF companyCount # NoCompanyCount
                                       THEN companyCount ELSE @,
                      !.results = IF newResults # <<>> THEN newResults ELSE @,
                      !.status = s2]),
           lastCall |-> Called(M, "updateProgress", id)]

updateProgress(M, id, processed, success, error, newResults, companyCount) ==
  IF ~HasJob(M, id)
  THEN [M EXCEPT !.lastCall = Called(M, "updateProgress", id)]
  ELSE LET job == M.jobs[id]
           s1 == IF job.status = "pending" THEN "processing" ELSE job.status
           s2 == IF processed >= job.totalRecords /\ s1 # "cancelled"
                 THEN "completed" ELSE s1
       IN [jobs |-> SetJob(M, id, [job EXCEPT
                      !.processedRecords = processed,
                      !.successCount = success,
                      !.errorCount = error,
                      !.companyCount = IF companyCount # NoCompanyCount
                                       THEN companyCount ELSE @,
                      !.results = @ \o newResults,
                      !.status = s2]),
           lastCall |-> Called(M, "updateProgress", id)]

completeJob(M, id) ==
  IF HasJob(M, id) /\ StatusOf(M, id) # "cancelled"
  THEN [jobs |-> SetJob(M, id, [M.jobs[id] EXCEPT !.status = "completed"]),
        lastCall |-> Called(M, "completeJob", id)]
  ELSE [M EXCEPT !.lastCall = Called(M, "completeJob", id)]

SystemError == [title |-> "System Error", status |-> "error"]

failJobLeavesStatus(M, id) ==
  IF HasJob(M, id)
  THEN [jobs |-> SetJob(M, id, [M.jobs[id] EXCEPT
                   !.results = Append(@, SystemError)]),
        lastCall |-> Called(M, "failJob", id)]
  ELSE [M EXCEPT !.lastCall = Called(M, "failJob", id)]

failJob(M, id) ==
  IF HasJob(M, id)
  THEN [jobs |-> SetJob(M, id, [M.jobs[id] EXCEPT
                   !.status = "failed",
                   !.results = Append(@, SystemError)]),
        lastCall |-> Called(M, "failJob", id)]
  ELSE [M EXCEPT !.lastCall = Called(M, "failJob", id)]

cancelJobCancelsEveryJob(M, id) ==
  IF HasJob(M, id)
  THEN [jobs |-> [i \in DOMAIN M.jobs |->
                    [M.jobs[i] EXCEPT !.status = "cancelled"]],
        lastCall |-> Called(M, "cancelJob", id)]
  ELSE [M EXCEPT !.lastCall = Called(M, "cancelJob", id)]

cancelJob(M, id) ==
  IF HasJob(M, id)
  THEN [jobs |-> SetJob(M, id, [M.jobs[id] EXCEPT !.status = "cancelled"]),
        lastCall |-> Called(M, "cancelJob", id)]
  ELSE [M EXCEPT !.lastCall = Called(M, "cancelJob", id)]

isCancelledReadsFailed(M, id) == StatusOf(M, id) = "failed"

isCancelled(M, id) == StatusOf(M, id) = "cancelled"

(***************************************************************************)
(* Initial state: an empty ledger, no driver running, nothing polled yet.  *)
(***************************************************************************)
NoDriver ==
  [kind |-> "none", jobId |-> UnknownId, records |-> <<>>, pc |-> "idle",
   i |-> 0, successCount |-> 0, errorCount |-> 0, processedCount |-> 0,
   results |-> <<>>, activePromises |-> {}, batchResults |-> <<>>,
   groups |-> <<>>, importResults |-> <<>>, started |-> {}]

NoPoll == [status |-> "none", progress |-> 0,
           successCount |-> 0, errorCount |-> 0]

NoRetry ==
  [fn |-> "none", pc |-> "idle", retries |-> 0, calls |-> 0,
   history |-> <<>>, result |-> "none"]

NoStart ==
  [route |-> "none", headers |-> {}, isValid |-> FALSE,
   detectedType |-> "none", response |-> "none"]

NoShop ==
  [run |-> 0, pc |-> "idle", records |-> <<>>, groups |-> <<>>, g |-> 0,
   i |-> 0, retries |-> 0, isNewCompany |-> FALSE, faults |-> 0,
   companies |-> {}, locations |-> {}, documents |-> {},
   before |-> [companies |-> {}, locations |-> {}, documents |-> {}],
   issued |-> {}, unanswered |-> {}, rejected |-> {}, results |-> <<>>,
   companySteps |-> <<>>, byEmail |-> <<>>,
   discount |-> [run |-> 0, pc |-> "idle", record |-> <<>>, retryCount |-> 0,
                 discountCode |-> <<>>, remote |-> {}, mirror |-> <<>>,
                 outcomes |-> <<>>,
                        value |-> [kind |-> "undefined", m |-> 0, e |-> 0],
                        sent |-> {}, creates |-> 0, duplicates |-> 0],
   read |-> [fields |-> <<>>, data |-> <<>>],
   handles |-> <<>>,
   collection |-> [tasks |-> <<>>, collections |-> <<>>, definition |-> FALSE,
                   definitionCreates |-> 0, documents |-> <<>>,
                   faults |-> 0]]

Init ==
  /\ importJobManager = [jobs |-> <<>>, lastCall |-> NoCall]
  /\ drv = NoDriver
  /\ polled = NoPoll
  /\ retry = NoRetry
  /\ startReq = NoStart
  /\ shop = NoShop

(***************************************************************************)
(* SpecLedger: arbitrary sequences of calls of the ledger's API on one     *)
(* job id and on an unknown id, with arguments from small sets.            *)
(***************************************************************************)
SampleEntries == {[title |-> Titles[1], status |-> "success"],
                  [title |-> Titles[2], status |-> "error"]}

SampleBatches == {<<>>} \cup {<<e>> : e \in SampleEntries}

LedgerCreateJob ==
  /\ \E id \in JobIds \ DOMAIN importJobManager.jobs, total \in 0..MaxArg :
       importJobManager' = createJob(importJobManager, id, "collections", total)
  /\ UNCHANGED <<drv, polled, retry, startReq, shop>>

LedgerUpdateProgress ==
  /\ \E id \in JobIds \cup {UnknownId}, processed \in 0..MaxArg,
        success \in 0..MaxArg, newResults \in SampleBatches,
        companyCount \in {NoCompanyCount, <<1>>} :
       /\ success <= processed
       /\ Len(newResults) + (IF HasJob(importJobManager, id)
                             THEN Len(importJobManager.jobs[id].results)
                             ELSE 0) <= MaxResults
       /\ importJobManager' = updateProgress(importJobManager, id, processed,
                                success, processed - success, newResults,
                                companyCount)
  /\ UNCHANGED <<drv, polled, retry, startReq, shop>>

LedgerCompleteJob ==
  /\ \E id \in JobIds \cup {UnknownId} :
       importJobManager' = completeJob(importJobManager, id)
  /\ UNCHANGED <<drv, polled, retry, startReq, shop>>

LedgerFailJob ==
  /\ \E id \in JobIds \cup {UnknownId} :
       /\ (IF HasJob(importJobManager, id)
           THEN Len(importJobManager.jobs[id].results) ELSE 0) < MaxResults
       /\ importJobManager' = failJob(importJobManager, id)
  /\ UNCHANGED <<drv, polled, retry, startReq, shop>>

LedgerCancelJob ==
  /\ \E id \in JobIds \cup {UnknownId} :
       importJobManager' = cancelJob(importJobManager, id)
  /\ UNCHANGED <<drv, polled, retry, startReq, shop>>

LedgerNext ==
  \/ LedgerCreateJob
  \/ LedgerUpdateProgress
  \/ LedgerCompleteJob
  \/ LedgerFailJob
  \/ LedgerCancelJob

SpecLedger == Init /\ [][LedgerNext]_vars

(***************************************************************************)
(* SpecJobs: the ledger holding two jobs.  Calls are made on the ids of    *)
(* both jobs and on an unknown id; a job has one record and its results    *)
(* hold at most MaxJobResults entries.                                     *)
(***************************************************************************)
MaxJobResults == 1

PairIds == JobIds \cup {"j2"}

ResultsLength(M, id) == IF HasJob(M, id) THEN Len(M.jobs[id].results) ELSE 0

JobsCreateJob ==
  /\ \E id \in PairIds \ DOMAIN importJobManager.jobs :
       importJobManager' = createJob(importJobManager, id, "collections", 1)
  /\ UNCHANGED <<drv, polled, retry, startReq, shop>>

JobsUpdateProgress ==
  /\ \E id \in PairIds \cup {UnknownId}, processed \in 0..1,
        newResults \in {<<>>,
                        <<[title |-> Titles[1], status |-> "success"]>>} :
       /\ Len(newResults) + ResultsLength(importJobManager, id)
            <= MaxJobResults
       /\ importJobManager' = updateProgress(importJobManager, id, processed,
                                processed, 0, newResults, NoCompanyCount)
  /\ UNCHANGED <<drv, polled, retry, startReq, shop>>

JobsCompleteJob ==
  /\ \E id \in PairIds \cup {UnknownId} :
       importJobManager' = completeJob(importJobManager, id)
  /\ UNCHANGED <<drv, polled, retry, startReq, shop>>

JobsFailJob ==
  /\ \E id \in PairIds \cup {UnknownId} :
       /\ ResultsLength(importJobManager, id) < MaxJobResults
       /\ importJobManager' = failJob(importJobManager, id)
  /\ UNCHANGED <<drv, polled, retry, startReq, shop>>

JobsCancelJob ==
  /\ \E id \in PairIds \cup {UnknownId} :
       importJobManager' = cancelJob(importJobManager, id)
  /\ UNCHANGED <<drv, polled, retry, startReq, shop>>

JobsNext ==
  \/ JobsCreateJob
  \/ JobsUpdateProgress
  \/ JobsCompleteJob
  \/ JobsFailJob
  \/ JobsCancelJob

SpecJobs == Init /\ [][JobsNext]_vars

(***************************************************************************)
(* The drivers.  drv holds the locals of the detached async function of    *)
(* the one import that was started: records, the loop position i, the      *)
(* counters successCount/errorCount/processedCount, the local results      *)
(* list, the pending promises, and pc, the await the driver is parked at.  *)
(* drv.started is the set of records (or company groups) whose processing  *)
(* has begun.  The operators below work on a pair s = [d, m] of the        *)
(* driver's locals d and the manager m, and run the code up to its next    *)
(* await on remote I/O.                                                    *)
(***************************************************************************)
(***************************************************************************)
(* Bind(x, F) is F(x); x is evaluated once, before F is applied to it.     *)
(***************************************************************************)
Bind(x, F(_)) == CHOOSE r \in {F(v) : v \in {x}} : TRUE

Entry(title, status) == [title |-> title, status |-> status]

Push(s, entry) == [s EXCEPT !.d.results = Append(@, entry)]

ReportProgressOfBatchOnly(s0, n) ==
  Bind(s0, LAMBDA s :
    [s EXCEPT !.m = updateProgress(s.m, s.d.jobId, n,
                      s.d.successCount, s.d.errorCount,
                      JsSlice(s.d.results, Len(s.d.results) - n),
                      NoCompanyCount)])

ReportProgress(s0, n) ==
  Bind(s0, LAMBDA s :
    [s EXCEPT !.m = updateProgress(s.m, s.d.jobId, s.d.processedCount,
                      s.d.successCount, s.d.errorCount,
                      JsSlice(s.d.results, Len(s.d.results) - n),
                      NoCompanyCount)])

FinishWithoutCompleteJob(s0) ==
  Bind(s0, LAMBDA s : [s EXCEPT !.d.pc = "done"])

FinishFailsJobWithoutSuccess(s0) ==
  Bind(s0, LAMBDA s :
    [d |-> [s.d EXCEPT !.pc = "done"],
     m |-> IF isCancelled(s.m, s.d.jobId)
           THEN s.m
           ELSE IF s.d.successCount = 0 /\ s.d.errorCount > 0
           THEN failJob(s.m, s.d.jobId)
           ELSE completeJob(s.m, s.d.jobId)])

FinishUnlessCancelled(s0) ==
  Bind(s0, LAMBDA s :
    [d |-> [s.d EXCEPT !.pc = "done"],
     m |-> IF ~isCancelled(s.m, s.d.jobId)
           THEN completeJob(s.m, s.d.jobId) ELSE s.m])

NewDriver(kind, id, records) ==
  [NoDriver EXCEPT !.kind = kind, !.jobId = id, !.records = records, !.i = 1]

(***************************************************************************)
(* Collection import: processRecord and the launch loop with its pool of   *)
(* at most CONCURRENCY_LIMIT pending promises.  A record without a title   *)
(* (or otherwise invalid) throws before the first await, so its catch and  *)
(* finally run inside the launching step.  record.remote is what           *)
(* saveCollectionLocally will answer for the record: "success", "warning"  *)
(* (success with warnings) or "error" (it throws).                         *)
(*                                                                         *)
(* Inputs: every list of up to MaxRecords records with distinct titles,    *)
(* and lists of CONCURRENCY_LIMIT + PoolExtra valid records that share     *)
(* one title, which fill the pool.  Pending tasks of identical records     *)
(* are interchangeable, so among them the one launched first returns       *)
(* first.                                                                  *)
(***************************************************************************)
CollectionRecordAt(k) ==
  {[title |-> Titles[k], valid |-> TRUE, remote |-> r] :
     r \in {"success", "warning", "error"}}
    \cup {[title |-> Titles[k], valid |-> FALSE, remote |-> "error"],
          [title |-> "", valid |-> FALSE, remote |-> "error"]}

SmallCollectionInputs(n) ==
  {r \in [1..n -> UNION {CollectionRecordAt(k) : k \in 1..n}] :
     \A k \in 1..n : r[k] \in CollectionRecordAt(k)}

PoolRecord(remote) == [title |-> Titles[1], valid |-> TRUE, remote |-> remote]

PoolInputs ==
  LET n == CONCURRENCY_LIMIT + PoolExtra
  IN {[k \in 1..n |-> PoolRecord(r)] : r \in {"success", "error"}}
       \cup {[k \in 1..n |-> PoolRecord(IF k = n THEN "error" ELSE "success")],
             [k \in 1..n |-> PoolRecord(IF k = 1 THEN "error" ELSE "success")]}

CollectionInputs ==
  PoolInputs \cup UNION {SmallCollectionInputs(n) : n \in 0..MaxRecords}

processRecordSuccess(s0, k, status) ==
  Bind(s0, LAMBDA s :
    LET s1 == [s EXCEPT !.d.successCount = @ + 1]
    IN IF Len(s1.d.results) < SuccessDetailLimit
       THEN Push(s1, Entry(s.d.records[k].title, status))
       ELSE s1)

processRecordCatchWithinLimit(s0, k) ==
  Bind(s0, LAMBDA s :
    LET title == s.d.records[k].title
        s1 == [s EXCEPT !.d.errorCount = @ + 1]
    IN IF Len(s.d.results) < SuccessDetailLimit
       THEN Push(s1, Entry(IF title = "" THEN "Unknown" ELSE title, "error"))
       ELSE s1)

processRecordCatch(s0, k) ==
  Bind(s0, LAMBDA s :
    LET title == s.d.records[k].title
    IN Push([s EXCEPT !.d.errorCount = @ + 1],
            Entry(IF title = "" THEN "Unknown" ELSE title, "error")))

processRecordFinallyStaleCount(s0) ==
  Bind(s0, LAMBDA s :
    [ReportProgress(s, 1) EXCEPT !.d.processedCount = @ + 1])

processRecordFinally(s) ==
  ReportProgress([s EXCEPT !.d.processedCount = @ + 1], 1)

processRecord(s0, k) ==
  Bind(s0, LAMBDA s :
    LET s1 == [s EXCEPT !.d.started = @ \cup {k}]
    IN IF s.d.records[k].valid
       THEN [s1 EXCEPT !.d.activePromises = @ \cup {k}]
       ELSE processRecordFinally(processRecordCatch(s1, k)))

CollectionAwaitAll(s0) ==
  Bind(s0, LAMBDA s :
    IF s.d.activePromises = {}
    THEN FinishUnlessCancelled(s)
    ELSE [s EXCEPT !.d.pc = "all"])

PoolFullOffByOne(d) == Cardinality(d.activePromises) > CONCURRENCY_LIMIT

PoolFull(d) == Cardinality(d.activePromises) >= CONCURRENCY_LIMIT

RECURSIVE CollectionLoop(_)
CollectionLoop(s0) ==
  Bind(s0, LAMBDA s :
    IF s.d.i > Len(s.d.records)
    THEN CollectionAwaitAll(s)
    ELSE IF isCancelled(s.m, s.d.jobId)
    THEN CollectionAwaitAll(s)
    ELSE LET s1 == processRecord(s, s.d.i)
             s2 == [s1 EXCEPT !.d.i = @ + 1]
         IN IF PoolFull(s2.d)
            THEN [s2 EXCEPT !.d.pc = "race"]
            ELSE CollectionLoop(s2))

LaunchCollections(inputs) ==
  /\ drv.kind = "none"
  /\ \E id \in JobIds \ DOMAIN importJobManager.jobs, records \in inputs :
       LET m1 == createJob(importJobManager, id, "collections", Len(records))
           s == CollectionLoop([d |-> NewDriver("collections", id, records),
                                m |-> m1])
       IN /\ importJobManager' = s.m
          /\ drv' = s.d

StartCollections ==
  /\ LaunchCollections(CollectionInputs)
  /\ UNCHANGED <<polled, retry, startReq, shop>>

CollectionTaskReturn ==
  /\ drv.kind = "collections"
  /\ \E k \in drv.activePromises :
       /\ \A j \in drv.activePromises : j < k => drv.records[j] # drv.records[k]
       /\ LET s0 == [d |-> drv, m |-> importJobManager]
              outcome == drv.records[k].remote
              s1 == IF outcome = "error"
                    THEN processRecordCatch(s0, k)
                    ELSE processRecordSuccess(s0, k, outcome)
              s2 == processRecordFinally(s1)
              s3 == [s2 EXCEPT !.d.activePromises = @ \ {k}]
              s4 == IF drv.pc = "race"
                    THEN CollectionLoop(s3)
                    ELSE CollectionAwaitAll(s3)
          IN /\ importJobManager' = s4.m
             /\ drv' = s4.d
  /\ UNCHANGED <<polled, retry, startReq, shop>>

(***************************************************************************)
(* Discount import: the upfront permission check, then one record at a     *)
(* time: transform and validate, create in Shopify, save the mirror.       *)
(* The route rejects an empty record list before any job is created.       *)
(***************************************************************************)
DiscountInputs(n) ==
  {r \in [1..n -> {[title |-> Titles[k], valid |-> v] :
                     k \in 1..n, v \in BOOLEAN}] :
     \A k \in 1..n : r[k].title = Titles[k]}

DiscountCatchFailsJob(s0) ==
  Bind(s0, LAMBDA s :
    [Push([s EXCEPT !.d.errorCount = @ + 1],
          Entry(s.d.records[s.d.i].title, "error"))
       EXCEPT !.m = failJob(s.m, s.d.jobId)])

DiscountCatch(s0) ==
  Bind(s0, LAMBDA s :
    Push([s EXCEPT !.d.errorCount = @ + 1],
         Entry(s.d.records[s.d.i].title, "error")))

RECURSIVE DiscountLoop(_)
DiscountLoop(s0) ==
  Bind(s0, LAMBDA s :
    IF s.d.i > Len(s.d.records)
    THEN FinishUnlessCancelled(s)
    ELSE IF isCancelled(s.m, s.d.jobId)
    THEN FinishUnlessCancelled(s)
    ELSE LET s1 == [s EXCEPT !.d.processedCount = @ + 1,
                             !.d.started = @ \cup {s.d.i}]
         IN IF s.d.records[s.d.i].valid
            THEN [s1 EXCEPT !.d.pc = "create", !.d.activePromises = {s.d.i}]
            ELSE DiscountLoop([ReportProgress(DiscountCatch(s1), 1)
                                 EXCEPT !.d.i = @ + 1]))

DiscountRecordDone(s) ==
  DiscountLoop([ReportProgress(s, 1) EXCEPT !.d.i = @ + 1,
                                            !.d.activePromises = {}])

LaunchDiscounts(lengths) ==
  /\ drv.kind = "none"
  /\ \E id \in JobIds \ DOMAIN importJobManager.jobs, n \in lengths :
       \E records \in DiscountInputs(n) :
         /\ importJobManager' =
              createJob(importJobManager, id, "discounts", Len(records))
         /\ drv' = [NewDriver("discounts", id, records) EXCEPT !.pc = "perm"]

StartDiscounts ==
  /\ LaunchDiscounts(1..MaxRecords)
  /\ UNCHANGED <<polled, retry, startReq, shop>>

DiscountPermissionReturn ==
  /\ drv.kind = "discounts"
  /\ drv.pc = "perm"
  /\ \E permissionsOk \in BOOLEAN :
       LET s0 == [d |-> drv, m |-> importJobManager]
           s1 == IF permissionsOk
                 THEN DiscountLoop(s0)
                 ELSE [d |-> [drv EXCEPT !.pc = "done"],
                       m |-> failJob(importJobManager, drv.jobId)]
       IN /\ importJobManager' = s1.m
          /\ drv' = s1.d
  /\ UNCHANGED <<polled, retry, startReq, shop>>

DiscountCreateReturn ==
  /\ drv.kind = "discounts"
  /\ drv.pc = "create"
  /\ \E created \in BOOLEAN :
       LET s0 == [d |-> drv, m |-> importJobManager]
           s1 == IF created
                 THEN [s0 EXCEPT !.d.pc = "save"]
                 ELSE DiscountRecordDone(DiscountCatch(s0))
       IN /\ importJobManager' = s1.m
          /\ drv' = s1.d
  /\ UNCHANGED <<polled, retry, startReq, shop>>

DiscountSaveReturn ==
  /\ drv.kind = "discounts"
  /\ drv.pc = "save"
  /\ \E saved \in BOOLEAN :
       LET s0 == [d |-> drv, m |-> importJobManager]
           s1 == IF saved
                 THEN Push([s0 EXCEPT !.d.successCount = @ + 1],
                           Entry(drv.records[drv.i].title, "success"))
                 ELSE DiscountCatch(s0)
           s2 == DiscountRecordDone(s1)
       IN /\ importJobManager' = s2.m
          /\ drv' = s2.d
  /\ UNCHANGED <<polled, retry, startReq, shop>>

(***************************************************************************)
(* Metaobject import: batches of BATCH_SIZE records run concurrently and   *)
(* are awaited with Promise.allSettled; progress is reported once per      *)
(* batch, and a timer separates two batches.  drv.i is the 0-based start   *)
(* of the current batch.  The job is created after the definition lookup   *)
(* of the route has succeeded.                                             *)
(***************************************************************************)
MetaInputs(n) == [k \in 1..n |-> [title |-> Titles[k], valid |-> TRUE]]

BatchOf(d) == (d.i + 1)..Min(d.i + BATCH_SIZE, Len(d.records))

BatchLengthAlwaysFull(d) == BATCH_SIZE

BatchLength(d) == Cardinality(BatchOf(d))

MetaLoop(s0) ==
  Bind(s0, LAMBDA s :
    IF s.d.i >= Len(s.d.records)
    THEN FinishUnlessCancelled(s)
    ELSE IF isCancelled(s.m, s.d.jobId)
    THEN FinishUnlessCancelled(s)
    ELSE [s EXCEPT !.d.pc = "batch",
                   !.d.activePromises = BatchOf(s.d),
                   !.d.started = @ \cup BatchOf(s.d),
                   !.d.batchResults = <<>>])

MetaBatchSettled(s0) ==
  Bind(s0, LAMBDA s :
    LET first == s.d.i + 1
        entries == [j \in 1..Cardinality(BatchOf(s.d)) |->
                      s.d.batchResults[first + j - 1]]
        s1 == [s EXCEPT !.d.results = @ \o entries,
                        !.d.processedCount = @ + BatchLength(s.d)]
        s2 == ReportProgress(s1, Cardinality(BatchOf(s.d)))
    IN IF s.d.i + BATCH_SIZE < Len(s.d.records)
       THEN [s2 EXCEPT !.d.pc = "delay"]
       ELSE FinishUnlessCancelled([s2 EXCEPT !.d.i = @ + BATCH_SIZE]))

StartMetaobjects ==
  /\ drv.kind = "none"
  /\ \E id \in JobIds \ DOMAIN importJobManager.jobs, n \in 0..MaxMetaRecords :
       LET records == MetaInputs(n)
           m1 == createJob(importJobManager, id, "metaobjects", Len(records))
           d1 == [NewDriver("metaobjects", id, records) EXCEPT !.i = 0]
           s == MetaLoop([d |-> d1, m |-> m1])
       IN /\ importJobManager' = s.m
          /\ drv' = s.d
  /\ UNCHANGED <<polled, retry, startReq, shop>>

MetaTaskReturn ==
  /\ drv.kind = "metaobjects"
  /\ drv.pc = "batch"
  /\ \E k \in drv.activePromises, ok \in BOOLEAN :
       LET entry == Entry(drv.records[k].title,
                          IF ok THEN "success" ELSE "error")
           d1 == [drv EXCEPT
                    !.successCount = IF ok THEN @ + 1 ELSE @,
                    !.errorCount = IF ok THEN @ ELSE @ + 1,
                    !.batchResults =
                       [j \in (DOMAIN @) \cup {k} |->
                          IF j = k THEN entry ELSE @[j]],
                    !.activePromises = @ \ {k}]
           s1 == [d |-> d1, m |-> importJobManager]
           s2 == IF d1.activePromises = {} THEN MetaBatchSettled(s1) ELSE s1
       IN /\ importJobManager' = s2.m
          /\ drv' = s2.d
  /\ UNCHANGED <<polled, retry, startReq, shop>>

MetaDelayReturn ==
  /\ drv.kind = "metaobjects"
  /\ drv.pc = "delay"
  /\ LET s == MetaLoop([d |-> [drv EXCEPT !.i = @ + BATCH_SIZE],
                        m |-> importJobManager])
     IN /\ importJobManager' = s.m
        /\ drv' = s.d
  /\ UNCHANGED <<polled, retry, startReq, shop>>

(***************************************************************************)
(* Company import: the route validates the rows, importCompanies groups    *)
(* the valid rows by company_id and handles the groups one after the       *)
(* other; the route reports once, when importCompanies has returned.       *)
(* A group ends in one of three ways: the company could not be created or  *)
(* found (every location skipped), an exception before any location was    *)
(* saved (one failed result for the group), or each location's document    *)
(* saved or failed on its own.  drv.i is the group being handled and       *)
(* drv.started the groups begun.                                           *)
(***************************************************************************)
CompanyIds == {"A", "B"}

CompanyRowAt(k) ==
  {[title |-> Titles[k], valid |-> TRUE, company_id |-> c] : c \in CompanyIds}
    \cup {[title |-> Titles[k], valid |-> FALSE, company_id |-> ""]}

CompanyInputs(n) ==
  {r \in [1..n -> UNION {CompanyRowAt(k) : k \in 1..n}] :
     \A k \in 1..n : r[k] \in CompanyRowAt(k)}

RowErrors(records) ==
  LET bad == SelectSeq([k \in 1..Len(records) |-> k],
                       LAMBDA k : ~records[k].valid)
  IN [j \in 1..Len(bad) |-> Entry(records[bad[j]].title, "error")]

Companies(records) ==
  SelectSeq([k \in 1..Len(records) |-> k], LAMBDA k : records[k].valid)

RECURSIVE GroupKeys(_, _, _)
GroupKeys(records, rows, keys) ==
  IF rows = <<>>
  THEN keys
  ELSE LET c == records[Head(rows)].company_id
       IN GroupKeys(records, Tail(rows),
                    IF \E j \in 1..Len(keys) : keys[j] = c
                    THEN keys ELSE Append(keys, c))

companyGroups(records) ==
  LET rows == Companies(records)
      keys == GroupKeys(records, rows, <<>>)
  IN [g \in 1..Len(keys) |->
        [company_id |-> keys[g],
         locations |-> SelectSeq(rows,
                         LAMBDA k : records[k].company_id = keys[g])]]

GroupResults(d, outcome, failing) ==
  LET group == d.groups[d.i]
      locs == group.locations
  IN IF outcome = "failed"
     THEN <<[success |-> FALSE, company_id |-> group.company_id,
             title |-> group.company_id]>>
     ELSE [j \in 1..Len(locs) |->
             [success |-> IF outcome = "skipped"
                          THEN FALSE ELSE locs[j] \notin failing,
              company_id |-> group.company_id,
              title |-> d.records[locs[j]].title]]

CompanyCountOf(importResults) ==
  Cardinality({importResults[j].company_id : j \in 1..Len(importResults)})

CompanyReport(s0) ==
  Bind(s0, LAMBDA s :
    LET res == s.d.importResults
        failures == SelectSeq(res, LAMBDA r : ~r.success)
        companyCount == CompanyCountOf(res)
        d1 == [s.d EXCEPT
                 !.successCount = Len(SelectSeq(res, LAMBDA r : r.success)),
                 !.errorCount = Len(failures),
                 !.processedCount = companyCount,
                 !.results = @ \o [j \in 1..Len(failures) |->
                                     Entry(failures[j].title, "error")],
                 !.pc = "done"]
        m1 == updateProgress(s.m, d1.jobId, companyCount, d1.successCount,
                             d1.errorCount, d1.results, <<companyCount>>)
    IN [d |-> d1, m |-> completeJob(m1, d1.jobId)])

importCompaniesNextGroup(s0) ==
  Bind(s0, LAMBDA s :
    IF s.d.i > Len(s.d.groups)
    THEN CompanyReport(s)
    ELSE [s EXCEPT !.d.pc = "group", !.d.started = @ \cup {s.d.i}])

LaunchCompanies(lengths) ==
  /\ drv.kind = "none"
  /\ \E id \in JobIds \ DOMAIN importJobManager.jobs, n \in lengths :
       \E records \in CompanyInputs(n) :
         LET m1 == createJob(importJobManager, id, "companies", Len(records))
             bad == RowErrors(records)
             d1 == [NewDriver("companies", id, records) EXCEPT
                      !.errorCount = Len(bad),
                      !.results = bad,
                      !.groups = companyGroups(records)]
             s == importCompaniesNextGroup([d |-> d1, m |-> m1])
         IN /\ importJobManager' = s.m
            /\ drv' = s.d

StartCompanies ==
  /\ LaunchCompanies(0..MaxRecords)
  /\ UNCHANGED <<polled, retry, startReq, shop>>

CompanyGroupReturn ==
  /\ drv.kind = "companies"
  /\ drv.pc = "group"
  /\ \E outcome \in {"skipped", "failed", "saved"} :
       \E failing \in SUBSET {drv.groups[drv.i].locations[j] :
                                j \in 1..Len(drv.groups[drv.i].locations)} :
         /\ outcome \in {"skipped", "failed"} => failing = {}
         /\ LET d1 == [drv EXCEPT
                         !.importResults =
                            @ \o GroupResults(drv, outcome, failing),
                         !.i = @ + 1]
                s == importCompaniesNextGroup([d |-> d1,
                                               m |-> importJobManager])
            IN /\ importJobManager' = s.m
               /\ drv' = s.d
  /\ UNCHANGED <<polled, retry, startReq, shop>>

(***************************************************************************)
(* The cancel route and the status poll (loader).                          *)
(***************************************************************************)
Cancel ==
  /\ \E id \in DOMAIN importJobManager.jobs :
       importJobManager' = cancelJob(importJobManager, id)
  /\ UNCHANGED <<drv, polled, retry, startReq, shop>>

MathRound(num, den) == (2 * num + den) \div (2 * den)

StatusResponse(job) ==
  [status |-> job.status,
   progress |-> IF job.totalRecords > 0
                THEN MathRound(job.processedRecords * 100, job.totalRecords)
                ELSE 0,
   successCount |-> job.successCount,
   errorCount |-> job.errorCount]

Poll ==
  /\ \E id \in DOMAIN importJobManager.jobs :
       polled' = StatusResponse(getJob(importJobManager, id))
  /\ UNCHANGED <<importJobManager, drv, retry, startReq, shop>>

DriverStep ==
  \/ CollectionTaskReturn
  \/ DiscountPermissionReturn
  \/ DiscountCreateReturn
  \/ DiscountSaveReturn
  \/ MetaTaskReturn
  \/ MetaDelayReturn
  \/ CompanyGroupReturn

Next ==
  \/ StartCollections
  \/ StartDiscounts
  \/ StartMetaobjects
  \/ StartCompanies
  \/ DriverStep
  \/ Cancel
  \/ Poll

Spec == Init /\ [][Next]_vars

(***************************************************************************)
(* FairSpec: every awaited remote call and timer eventually returns, so    *)
(* a driver parked at an await is eventually resumed.                      *)
(***************************************************************************)
FairSpec == Spec /\ WF_vars(DriverStep)

(***************************************************************************)
(* The retry loops of the remote-call layer: withRetry (collection         *)
(* create, update, add products) and createShopifyCompany.  retry is the   *)
(* state of one call: retries is the local counter, history the outcomes   *)
(* of the attempts made so far, calls the number of times the operation    *)
(* (the mutation) was issued, pc the await the call is parked at.          *)
(* An attempt ends in one of: "ok"; "rate", a result whose error text is   *)
(* of the rate-limit/Throttled class; "invalid", a result with any other   *)
(* userErrors; "throw", the request itself rejects; and, for               *)
(* createShopifyCompany, "found": the existence check matched, so no       *)
(* mutation is issued, and "recovered": companyCreate answered "email      *)
(* taken" and the company was found by that email.  In both functions the  *)
(* throw statements stand inside the try block whose catch decides about   *)
(* another attempt.                                                        *)
(***************************************************************************)
maxRetries == 3

RetryFns == {"withRetry", "createShopifyCompany"}

Outcomes(fn) ==
  {"ok", "rate", "invalid", "throw"}
    \cup (IF fn = "createShopifyCompany"
           THEN {"found", "recovered"} ELSE {})

Returned(c) == [c EXCEPT !.pc = "done", !.result = "returned"]

Thrown(c) == [c EXCEPT !.pc = "done", !.result = "thrown"]

withRetryCatchNoLimit(c) == [c EXCEPT !.retries = @ + 1, !.pc = "sleep"]

withRetryCatch(c) ==
  IF c.retries >= maxRetries
  THEN Thrown(c)
  ELSE [c EXCEPT !.retries = @ + 1, !.pc = "sleep"]

withRetry(c, outcome) ==
  IF outcome = "ok"
  THEN Returned(c)
  ELSE IF outcome = "rate"
  THEN LET c1 == [c EXCEPT !.retries = @ + 1]
       IN IF c1.retries >= maxRetries
          THEN withRetryCatch(c1)
          ELSE [c1 EXCEPT !.pc = "sleep"]
  ELSE withRetryCatch(c)

createShopifyCompany(c, outcome) ==
  IF outcome \in {"ok", "found", "recovered"}
  THEN Returned(c)
  ELSE IF c.retries >= maxRetries - 1
  THEN Thrown(c)
  ELSE [c EXCEPT !.pc = "sleep"]

RetryStart ==
  /\ retry.pc = "idle"
  /\ \E fn \in RetryFns : retry' = [NoRetry EXCEPT !.fn = fn, !.pc = "op"]
  /\ UNCHANGED <<importJobManager, drv, polled, startReq, shop>>

RetryOperationReturn ==
  /\ retry.pc = "op"
  /\ \E outcome \in Outcomes(retry.fn) :
       LET c == [retry EXCEPT
                   !.history = Append(@, outcome),
                   !.calls = IF outcome = "found" THEN @ ELSE @ + 1]
       IN retry' = IF retry.fn = "withRetry"
                   THEN withRetry(c, outcome)
                   ELSE createShopifyCompany(c, outcome)
  /\ UNCHANGED <<importJobManager, drv, polled, startReq, shop>>

RetrySleepReturn ==
  /\ retry.pc = "sleep"
  /\ retry' = [retry EXCEPT
                 !.pc = "op",
                 !.retries = IF retry.fn = "createShopifyCompany"
                             THEN @ + 1 ELSE @]
  /\ UNCHANGED <<importJobManager, drv, polled, startReq, shop>>

RetryNext ==
  \/ RetryStart
  \/ RetryOperationReturn
  \/ RetrySleepReturn

SpecRetry == Init /\ [][RetryNext]_vars

(***************************************************************************)
(* FairRetry: the awaited operation and the backoff timer return.          *)
(***************************************************************************)
FairRetry ==
  SpecRetry /\ WF_vars(RetryOperationReturn) /\ WF_vars(RetrySleepReturn)

(***************************************************************************)
(* The header check of a start request.  The routes read the keys of the   *)
(* first record, lower-case and trim them, and count how many distinctive  *)
(* header names of each other entity family are among them.  A rejected    *)
(* request returns before createJob; an accepted one creates the job and   *)
(* launches the driver as in StartCollections, StartDiscounts and          *)
(* StartCompanies, here on inputs of one record, the record whose keys     *)
(* were examined.  startReq.detectedType is "none" when the validator      *)
(* names no family.                                                        *)
(***************************************************************************)
MaxHeaders == 3

collectionHeaders == {"collection_type", "relation_type", "rule_set"}

discountHeaders(route) ==
  {"discount_type", "buy_quantity", "get_quantity", "get_discount",
   "usage_limit"}
    \cup (IF route = "collections"
          THEN {"combines_with_product_discounts"} ELSE {})

companyHeaders(route) ==
  {"company_id", "location_id", "location_name", "shipping_street",
   "shipping_city"}
    \cup (IF route = "collections" THEN {"contact_email"} ELSE {})

metaobjectHeaders == {"metaobject_type", "definition_type"}

RawHeaders == {" Discount_Type", "TITLE "}

HeaderUniverse ==
  collectionHeaders \cup discountHeaders("collections")
    \cup companyHeaders("collections") \cup metaobjectHeaders
    \cup {"title", "name"} \cup RawHeaders

normalizeHeader(h) ==
  CASE h = " Discount_Type" -> "discount_type"
    [] h = "TITLE " -> "title"
    [] OTHER -> h

normalizedHeaders(headers) == {normalizeHeader(h) : h \in headers}

Matches(family, headers) ==
  Cardinality(family \cap normalizedHeaders(headers))

Invalid(detectedType) == [isValid |-> FALSE, detectedType |-> detectedType]

Valid == [isValid |-> TRUE, detectedType |-> "none"]

validateCollectionHeaders(headers) ==
  IF Matches(discountHeaders("collections"), headers) >= 3
  THEN Invalid("discount")
  ELSE IF Matches(companyHeaders("collections"), headers) >= 3
  THEN Invalid("company")
  ELSE IF Matches(metaobjectHeaders, headers) >= 1
  THEN Invalid("metaobject")
  ELSE IF "title" \notin normalizedHeaders(headers)
  THEN Invalid("none")
  ELSE Valid

validateDiscountHeaders(headers) ==
  IF Matches(collectionHeaders, headers) >= 2
  THEN Invalid("collection")
  ELSE IF Matches(companyHeaders("discounts"), headers) >= 3
  THEN Invalid("company")
  ELSE IF Matches(metaobjectHeaders, headers) >= 1
  THEN Invalid("metaobject")
  ELSE IF "discount_type" \notin normalizedHeaders(headers)
            /\ "title" \notin normalizedHeaders(headers)
  THEN Invalid("none")
  ELSE Valid

validateCompanyHeaders(headers) ==
  IF Matches(collectionHeaders, headers) >= 2
  THEN Invalid("collection")
  ELSE IF Matches(discountHeaders("companies"), headers) >= 3
  THEN Invalid("discount")
  ELSE IF Matches(metaobjectHeaders, headers) >= 1
  THEN Invalid("metaobject")
  ELSE IF "company_id" \notin normalizedHeaders(headers)
            /\ "name" \notin normalizedHeaders(headers)
  THEN Invalid("none")
  ELSE Valid

Routes == {"collections", "discounts", "companies"}

validateHeaders(route, headers) ==
  CASE route = "collections" -> validateCollectionHeaders(headers)
    [] route = "discounts" -> validateDiscountHeaders(headers)
    [] route = "companies" -> validateCompanyHeaders(headers)

RECURSIVE HeaderSets(_)
HeaderSets(n) ==
  IF n = 0
  THEN {{}}
  ELSE LET smaller == HeaderSets(n - 1)
       IN smaller \cup {hs \cup {h} : hs \in smaller, h \in HeaderUniverse}

Launch(route) ==
  CASE route = "collections" -> LaunchCollections(SmallCollectionInputs(1))
    [] route = "discounts" -> LaunchDiscounts({1})
    [] route = "companies" -> LaunchCompanies({1})

StartRequest ==
  /\ startReq.route = "none"
  /\ drv.kind = "none"
  /\ \E route \in Routes, headers \in HeaderSets(MaxHeaders) :
       LET validation == validateHeaders(route, headers)
       IN /\ startReq' = [route |-> route,
                          headers |-> headers,
                          isValid |-> validation.isValid,
                          detectedType |-> validation.detectedType,
                          response |-> IF validation.isValid
                                       THEN "started" ELSE "rejected"]
          /\ IF validation.isValid
             THEN Launch(route)
             ELSE UNCHANGED <<importJobManager, drv>>
  /\ UNCHANGED <<polled, retry, shop>>

SpecStart == Init /\ [][StartRequest]_vars

(***************************************************************************)
(* importCompanies against the remote store and the document store.        *)
(* shop.companies holds the external ids of the remote companies,          *)
(* shop.locations the (company, externalId) pairs of the remote locations  *)
(* and shop.documents the handles of the stored documents.  The import     *)
(* runs twice over the same rows; the stores keep what the first run left  *)
(* in them and shop.before is their content when the second run starts.    *)
(* shop.issued collects the mutations the current run has issued,          *)
(* shop.unanswered the existence lookups of the current run that gave no   *)
(* answer (the query threw or returned a response without data),           *)
(* shop.rejected the mutations the remote side refused, shop.companySteps  *)
(* how the company step of each group ended and with which isNew           *)
(* ("reused", "found", "created", recovered after an email conflict by a   *)
(* lookup whose company has the record's externalId or its name, "none"    *)
(* when createShopifyCompanyWithFallback returned null, "threw" when the   *)
(* group's catch ran), shop.byEmail the companies that the lookup by       *)
(* email returned during the company step in progress or last ended, each  *)
(* with whether it was linked, and shop.results the result pushed for      *)
(* each row.  One step is one lookup                                       *)
(* together with the mutation that follows it; the remote side answers     *)
(* each of them nondeterministically, and shop.faults counts the calls of  *)
(* the current run that it failed or rejected, at most MaxFaults of them.  *)
(*                                                                         *)
(* generateMetaobjectHandle lower-cases its parts, so the location ids     *)
(* "L1" and "l1" are two external ids with one document handle.  The ids   *)
(* used here hold no other character the function replaces and stay under  *)
(* its 64-character cut.  The inputs start with the row of company "A"     *)
(* and location "L1"; the rows after it repeat it, add a location with     *)
(* the same or with another handle to the company, or add a second         *)
(* company.                                                                *)
(***************************************************************************)
MaxRows == 2
MaxFaults == 3

LocationIds == {"L1", "l1", "L2"}

toLowerCase(id) ==
  CASE id = "L1" -> "l1"
    [] id = "L2" -> "l2"
    [] id = "A" -> "a"
    [] id = "B" -> "b"
    [] id = "Acme" -> "acme"
    [] id = "ACME" -> "acme"
    [] id = "Beta" -> "beta"
    [] id = "BETA" -> "beta"
    [] OTHER -> id

generateMetaobjectHandle(prefix, id, subId) ==
  <<prefix, toLowerCase(id), toLowerCase(subId)>>

SyncRows ==
  {[company_id |-> "A", location_id |-> l] : l \in LocationIds}
    \cup {[company_id |-> c, location_id |-> "L1"] : c \in CompanyIds}

SyncInputs(n) ==
  {records \in [1..n -> SyncRows] :
     /\ records[1].company_id = "A"
     /\ records[1].location_id = "L1"}

locationGroups(records) ==
  LET rows == [k \in 1..Len(records) |-> k]
      keys == GroupKeys(records, rows, <<>>)
  IN [g \in 1..Len(keys) |->
        [company_id |-> keys[g],
         locations |-> SelectSeq(rows,
                         LAMBDA k : records[k].company_id = keys[g])]]

Mutation(op, key) == [op |-> op, key |-> key]

Issue(sh, op, key, answered) ==
  [sh EXCEPT !.issued = @ \cup {Mutation(op, key)},
             !.unanswered = IF answered THEN @ ELSE @ \cup {Mutation(op, key)},
             !.faults = IF answered THEN @ ELSE @ + 1]

Unanswered(sh, op, key) ==
  [sh EXCEPT !.unanswered = @ \cup {Mutation(op, key)}, !.faults = @ + 1]

Rejected(sh, op, key) ==
  [sh EXCEPT !.rejected = @ \cup {Mutation(op, key)}, !.faults = @ + 1]

CompanyStep(sh, outcome, isNew) ==
  [sh EXCEPT !.companySteps = Append(@, [outcome |-> outcome, isNew |-> isNew])]

Result(sh, company_id, location_id, action) ==
  [sh EXCEPT !.results = Append(@, [company_id |-> company_id,
                                    location_id |-> location_id,
                                    action |-> action])]

NextGroup(sh) ==
  IF sh.g + 1 > Len(sh.groups)
  THEN [sh EXCEPT !.g = @ + 1, !.pc = "done"]
  ELSE [sh EXCEPT !.g = @ + 1, !.pc = "company", !.retries = 0,
                  !.isNewCompany = FALSE, !.i = 0]

BeginRun(sh, run) ==
  NextGroup([sh EXCEPT !.run = run, !.g = 0, !.issued = {}, !.faults = 0,
                       !.unanswered = {}, !.rejected = {}, !.results = <<>>,
                       !.companySteps = <<>>, !.byEmail = <<>>,
                       !.before = [companies |-> sh.companies,
                                   locations |-> sh.locations,
                                   documents |-> sh.documents]])

Group(sh) == sh.groups[sh.g]

SaveLocations(sh) == [sh EXCEPT !.pc = "save", !.i = 1]

SyncLocations(sh, isNew) ==
  LET startIndex == IF isNew THEN 1 ELSE 0
  IN IF Len(Group(sh).locations) > startIndex
     THEN [sh EXCEPT !.isNewCompany = isNew, !.pc = "location",
                     !.i = startIndex + 1]
     ELSE SaveLocations([sh EXCEPT !.isNewCompany = isNew])

SkipGroup(sh) ==
  LET locations == Group(sh).locations
  IN NextGroup(
       [CompanyStep(sh, "none", FALSE) EXCEPT !.results =
          @ \o [j \in 1..Len(locations) |->
                  [company_id |-> Group(sh).company_id,
                   location_id |-> sh.records[locations[j]].location_id,
                   action |-> "skipped"]]])

FailGroup(sh) ==
  NextGroup(Result(Unanswered(CompanyStep(sh, "threw", FALSE),
                              "getMetaobjectByHandle",
                              generateMetaobjectHandle(
                                "company", Group(sh).company_id, "")),
                   Group(sh).company_id, "", "failed"))

companyName(companyData) ==
  CASE companyData.company_id = "A" -> "Acme"
    [] companyData.company_id = "B" -> "Beta"

FoundByEmail(sh, companyId, foundCompany, linked) ==
  [sh EXCEPT !.byEmail = Append(@, [company_id |-> companyId,
                                    foundCompany |-> foundCompany,
                                    linked |-> linked])]

createShopifyCompanyCatch(sh) ==
  IF sh.retries >= maxRetries - 1
  THEN SkipGroup(sh)
  ELSE [sh EXCEPT !.retries = @ + 1]

createShopifyCompanyAttemptDropsRecovered(sh, lookup, answer, nodes) ==
  LET group == Group(sh)
      mainCompany == sh.records[group.locations[1]]
      companyId == mainCompany.company_id
      companyHandle == generateMetaobjectHandle("company", companyId, "")
      refused == Rejected(Issue(sh, "companyCreate", companyId,
                                lookup = "answers"),
                          "companyCreate", companyId)
  IN IF companyHandle \in sh.documents
     THEN SyncLocations(CompanyStep(sh, "reused", FALSE), FALSE)
     ELSE IF lookup = "answers" /\ companyId \in sh.companies
     THEN SyncLocations(CompanyStep(sh, "found", FALSE), FALSE)
     ELSE IF answer = "created"
     THEN SyncLocations(
            CompanyStep(
              [Issue(sh, "companyCreate", companyId, lookup = "answers")
                 EXCEPT !.companies = @ \cup {companyId},
                        !.locations =
                           @ \cup {<<companyId, mainCompany.location_id>>}],
              "created", TRUE),
            TRUE)
     ELSE IF answer = "emailTaken" /\ nodes # <<>>
     THEN LET foundCompany == nodes[1]
              nameMatches == toLowerCase(foundCompany.name)
                               = toLowerCase(companyName(mainCompany))
              externalIdMatches == /\ companyId # ""
                                   /\ foundCompany.externalId = companyId
              asked == FoundByEmail(refused, companyId, foundCompany, FALSE)
          IN IF nameMatches \/ externalIdMatches
             THEN SkipGroup([asked EXCEPT !.companySteps =
                    Append(@, [outcome |-> IF externalIdMatches
                                           THEN "emailOfExternalId"
                                           ELSE "emailOfName",
                               isNew |-> FALSE])])
             ELSE createShopifyCompanyCatch(asked)
     ELSE createShopifyCompanyCatch(refused)

createShopifyCompanyAttemptLinksAnyCompany(sh, lookup, answer, nodes) ==
  LET group == Group(sh)
      mainCompany == sh.records[group.locations[1]]
      companyId == mainCompany.company_id
      companyHandle == generateMetaobjectHandle("company", companyId, "")
      refused == Rejected(Issue(sh, "companyCreate", companyId,
                                lookup = "answers"),
                          "companyCreate", companyId)
  IN IF companyHandle \in sh.documents
     THEN SyncLocations(CompanyStep(sh, "reused", FALSE), FALSE)
     ELSE IF lookup = "answers" /\ companyId \in sh.companies
     THEN SyncLocations(CompanyStep(sh, "found", FALSE), FALSE)
     ELSE IF answer = "created"
     THEN SyncLocations(
            CompanyStep(
              [Issue(sh, "companyCreate", companyId, lookup = "answers")
                 EXCEPT !.companies = @ \cup {companyId},
                        !.locations =
                           @ \cup {<<companyId, mainCompany.location_id>>}],
              "created", TRUE),
            TRUE)
     ELSE IF answer = "emailTaken" /\ nodes # <<>>
     THEN LET foundCompany == nodes[1]
              nameMatches == toLowerCase(foundCompany.name)
                               = toLowerCase(companyName(mainCompany))
              externalIdMatches == /\ companyId # ""
                                   /\ foundCompany.externalId = companyId
              asked == FoundByEmail(refused, companyId, foundCompany, FALSE)
          IN IF TRUE
             THEN SyncLocations(
                    CompanyStep(FoundByEmail(refused, companyId,
                                             foundCompany, TRUE),
                                IF externalIdMatches
                                THEN "emailOfExternalId"
                                ELSE IF nameMatches
                                THEN "emailOfName" ELSE "emailOfOther",
                                FALSE),
                    FALSE)
             ELSE createShopifyCompanyCatch(asked)
     ELSE createShopifyCompanyCatch(refused)

createShopifyCompanyAttempt(sh, lookup, answer, nodes) ==
  LET group == Group(sh)
      mainCompany == sh.records[group.locations[1]]
      companyId == mainCompany.company_id
      companyHandle == generateMetaobjectHandle("company", companyId, "")
      refused == Rejected(Issue(sh, "companyCreate", companyId,
                                lookup = "answers"),
                          "companyCreate", companyId)
  IN IF companyHandle \in sh.documents
     THEN SyncLocations(CompanyStep(sh, "reused", FALSE), FALSE)
     ELSE IF lookup = "answers" /\ companyId \in sh.companies
     THEN SyncLocations(CompanyStep(sh, "found", FALSE), FALSE)
     ELSE IF answer = "created"
     THEN SyncLocations(
            CompanyStep(
              [Issue(sh, "companyCreate", companyId, lookup = "answers")
                 EXCEPT !.companies = @ \cup {companyId},
                        !.locations =
                           @ \cup {<<companyId, mainCompany.location_id>>}],
              "created", TRUE),
            TRUE)
     ELSE IF answer = "emailTaken" /\ nodes # <<>>
     THEN LET foundCompany == nodes[1]
              nameMatches == toLowerCase(foundCompany.name)
                               = toLowerCase(companyName(mainCompany))
              externalIdMatches == /\ companyId # ""
                                   /\ foundCompany.externalId = companyId
              asked == FoundByEmail(refused, companyId, foundCompany, FALSE)
          IN IF nameMatches \/ externalIdMatches
             THEN SyncLocations(
                    CompanyStep(FoundByEmail(refused, companyId,
                                             foundCompany, TRUE),
                                IF externalIdMatches
                                THEN "emailOfExternalId"
                                ELSE IF nameMatches
                                THEN "emailOfName" ELSE "emailOfOther",
                                FALSE),
                    FALSE)
             ELSE createShopifyCompanyCatch(asked)
     ELSE createShopifyCompanyCatch(refused)

NextLocation(sh) ==
  IF sh.i + 1 > Len(Group(sh).locations)
  THEN SaveLocations(sh)
  ELSE [sh EXCEPT !.i = @ + 1]

createShopifyCompanyLocationWithoutCheck(sh, lookup, answer) ==
  LET row == sh.records[Group(sh).locations[sh.i]]
      key == <<row.company_id, row.location_id>>
      sh2 == Issue(sh, "companyLocationCreate", key, lookup = "answers")
  IN NextLocation(IF answer = "created"
                  THEN [sh2 EXCEPT !.locations = @ \cup {key}]
                  ELSE Rejected(sh2, "companyLocationCreate", key))

createShopifyCompanyLocation(sh, lookup, answer) ==
  LET row == sh.records[Group(sh).locations[sh.i]]
      key == <<row.company_id, row.location_id>>
  IN IF lookup = "answers" /\ key \in sh.locations
     THEN NextLocation(sh)
     ELSE LET sh2 == Issue(sh, "companyLocationCreate", key,
                           lookup = "answers")
          IN NextLocation(IF answer = "created"
                          THEN [sh2 EXCEPT !.locations = @ \cup {key}]
                          ELSE Rejected(sh2, "companyLocationCreate", key))

saveLocation(sh, lookup, answer) ==
  LET k == Group(sh).locations[sh.i]
      row == sh.records[k]
      locationHandle ==
        generateMetaobjectHandle("loc", row.company_id, row.location_id)
      written == answer = "created"
      sh1 ==
        IF lookup = "throws"
        THEN Result(Unanswered(sh, "getMetaobjectByHandle", locationHandle),
                    row.company_id, row.location_id, "failed")
        ELSE IF lookup = "answers" /\ locationHandle \in sh.documents
        THEN Result(IF written
                    THEN Issue(sh, "metaobjectUpdate", locationHandle, TRUE)
                    ELSE Rejected(Issue(sh, "metaobjectUpdate",
                                        locationHandle, TRUE),
                                  "metaobjectUpdate", locationHandle),
                    row.company_id, row.location_id,
                    IF written THEN "updated" ELSE "failed")
        ELSE LET sh2 == Issue(sh, "metaobjectCreate", locationHandle,
                              lookup = "answers")
             IN IF written
                THEN Result([sh2 EXCEPT !.documents = @ \cup {locationHandle}],
                            row.company_id, row.location_id, "created")
                ELSE Result(Rejected(sh2, "metaobjectCreate", locationHandle),
                            row.company_id, row.location_id, "failed")
  IN IF sh1.i + 1 > Len(Group(sh1).locations)
     THEN NextGroup(sh1)
     ELSE [sh1 EXCEPT !.i = @ + 1]

Lookups == {"answers", "empty", "throws"}

Answers == {"created", "rejected"}

CompanyAnswers == Answers \cup {"emailTaken"}

FoundCompanies(companyData) ==
  [name : IF companyData.company_id = "A"
          THEN {"ACME", "Beta"} ELSE {"BETA", "Acme"},
   externalId : {companyData.company_id, ""}]

EmailNodes(answer, companyData) ==
  IF answer = "emailTaken"
  THEN {<<>>} \cup {<<foundCompany>> :
                      foundCompany \in FoundCompanies(companyData)}
  ELSE {<<>>}

ImportCompaniesFirst ==
  /\ shop.run = 0
  /\ \E n \in 1..MaxRows :
       \E records \in SyncInputs(n) :
         shop' = BeginRun([shop EXCEPT !.records = records,
                                       !.groups = locationGroups(records)],
                          1)
  /\ UNCHANGED <<importJobManager, drv, polled, retry, startReq>>

ImportCompaniesAgain ==
  /\ shop.run = 1
  /\ shop.pc = "done"
  /\ shop' = BeginRun(shop, 2)
  /\ UNCHANGED <<importJobManager, drv, polled, retry, startReq>>

CompanyLookupReturn ==
  /\ shop.pc = "company"
  /\ \/ /\ shop.retries = 0
        /\ shop' = FailGroup(shop)
        /\ shop'.faults <= MaxFaults
     \/ \E lookup \in Lookups \ {"empty"},
           answer \in CompanyAnswers :
          \E nodes \in EmailNodes(answer, Group(shop)) :
            /\ \A j \in 1..Len(nodes) :
                 nodes[j].externalId # ""
                   => nodes[j].externalId \in shop.companies
            /\ shop' = createShopifyCompanyAttempt(
                         IF shop.retries = 0
                         THEN [shop EXCEPT !.byEmail = <<>>] ELSE shop,
                         lookup, answer, nodes)
          /\ shop'.faults <= MaxFaults
  /\ UNCHANGED <<importJobManager, drv, polled, retry, startReq>>

LocationLookupReturn ==
  /\ shop.pc = "location"
  /\ \E lookup \in Lookups \ {"empty"}, answer \in Answers :
       /\ shop' = createShopifyCompanyLocation(shop, lookup, answer)
       /\ shop'.faults <= MaxFaults
  /\ UNCHANGED <<importJobManager, drv, polled, retry, startReq>>

DocumentLookupReturn ==
  /\ shop.pc = "save"
  /\ \E lookup \in Lookups, answer \in Answers :
       /\ shop' = saveLocation(shop, lookup, answer)
       /\ shop'.faults <= MaxFaults
  /\ UNCHANGED <<importJobManager, drv, polled, retry, startReq>>

SyncNext ==
  \/ ImportCompaniesFirst
  \/ ImportCompaniesAgain
  \/ CompanyLookupReturn
  \/ LocationLookupReturn
  \/ DocumentLookupReturn

SpecSync == Init /\ [][SyncNext]_vars

(***************************************************************************)
(* One discount record imported twice: createDiscountInShopify, then       *)
(* createDiscount for the mirror document.  shop.discount.remote holds     *)
(* the remote discounts, shop.discount.mirror the mirror documents in      *)
(* the order of their creation, and outcomes the result of each import.    *)
(* The remote side keeps discount codes unique, which is the rejection     *)
(* createWithRetry looks for, and may fail any call for another reason.    *)
(* A code is a tuple: the base code alone, or the base code followed by    *)
(* the timestamp suffix generateUniqueCode appends.  createMetaobject is   *)
(* called without a handle, so every call that succeeds adds a document.   *)
(***************************************************************************)
MaxStamps == 2

codeRetryThreshold1 == 3

CreateRetries == 3

MaxValueLen == 3

defaultPercentageDiscount == 15

Digits == {"0", "1", "5"}

ValueChars == Digits \cup {".", " "}

RECURSIVE ValueTexts(_)
ValueTexts(n) ==
  IF n = 0
  THEN {<<>>}
  ELSE {<<>>} \cup {<<c>> \o t : c \in ValueChars, t \in ValueTexts(n - 1)}

DiscountRecords ==
  {[title |-> t, code |-> c, discount_type |-> "percentage", value |-> v] :
     t \in {"Summer Sale", "vip"}, c \in {"SAVE10", ""},
     v \in ValueTexts(MaxValueLen)}

(***************************************************************************)
(* Numbers are decimals m / 10^e; the texts hold digits, a point and       *)
(* blanks, so parseFloat's sign, exponent and Infinity forms do not arise. *)
(***************************************************************************)
Number(m, e) == [kind |-> "number", m |-> m, e |-> e]

NaN == [kind |-> "NaN", m |-> 0, e |-> 0]

undefined == [kind |-> "undefined", m |-> 0, e |-> 0]

Falsy(x) == x.kind # "number" \/ x.m = 0

RECURSIVE Pow10(_)
Pow10(e) == IF e = 0 THEN 1 ELSE 10 * Pow10(e - 1)

SameNumber(x, y) ==
  /\ x.kind = "number"
  /\ y.kind = "number"
  /\ x.m * Pow10(y.e) = y.m * Pow10(x.e)

DigitValue(c) == CASE c = "0" -> 0 [] c = "1" -> 1 [] c = "5" -> 5

RECURSIVE DigitsValue(_)
DigitsValue(t) ==
  IF t = <<>>
  THEN 0
  ELSE 10 * DigitsValue(SubSeq(t, 1, Len(t) - 1)) + DigitValue(t[Len(t)])

RECURSIVE LeadingDigits(_)
LeadingDigits(t) ==
  IF t # <<>> /\ t[1] \in Digits THEN 1 + LeadingDigits(Tail(t)) ELSE 0

RECURSIVE trimStart(_)
trimStart(t) == IF t # <<>> /\ t[1] = " " THEN trimStart(Tail(t)) ELSE t

RECURSIVE trimEnd(_)
trimEnd(t) ==
  IF t # <<>> /\ t[Len(t)] = " "
  THEN trimEnd(SubSeq(t, 1, Len(t) - 1))
  ELSE t

trim(t) == trimEnd(trimStart(t))

parseFloat(text) ==
  LET t == trimStart(text)
      n1 == LeadingDigits(t)
      rest == SubSeq(t, n1 + 1, Len(t))
      n2 == IF rest # <<>> /\ rest[1] = "."
            THEN LeadingDigits(Tail(rest)) ELSE 0
  IN IF n1 + n2 = 0
     THEN NaN
     ELSE Number(DigitsValue(SubSeq(t, 1, n1)
                               \o SubSeq(t, n1 + 2, n1 + 1 + n2)), n2)

transformValue(record) ==
  IF record.value # <<>> /\ trim(record.value) # <<>>
  THEN parseFloat(record.value)
  ELSE undefined

buildCustomerGetsSendsValue(value) ==
  [percentage |-> IF Falsy(value)
                  THEN Number(defaultPercentageDiscount, 0)
                  ELSE value]

buildCustomerGets(value) ==
  LET v == IF Falsy(value) THEN Number(defaultPercentageDiscount, 0) ELSE value
  IN [percentage |-> Number(v.m, v.e + 2)]

baseCode(discountData) ==
  IF discountData.code # ""
  THEN discountData.code
  ELSE IF discountData.title = "Summer Sale"
  THEN "DSC_SUMMER_SALE"
  ELSE "DSC_VIP"

Stamps == 1..MaxStamps

generateUniqueCode(base, attempt, timestamp) ==
  IF attempt = 1
  THEN <<base>>
  ELSE IF attempt <= codeRetryThreshold1
  THEN <<base, timestamp>>
  ELSE <<base, "random">>

RemoteCodes(ds) == {d.code : d \in ds.remote}

DiscountDone(ds, outcome) ==
  [ds EXCEPT !.pc = "done", !.outcomes = Append(@, outcome)]

createWithRetry(ds, retryCount, timestamp) ==
  [ds EXCEPT !.pc = "create",
             !.retryCount = retryCount,
             !.discountCode =
                IF retryCount > 0
                THEN generateUniqueCode(baseCode(ds.record), retryCount,
                                        timestamp)
                ELSE <<baseCode(ds.record)>>]

Submitted(ds) ==
  [ds EXCEPT !.sent = @ \cup {[code |-> ds.discountCode,
                               customerGets |-> buildCustomerGets(ds.value)]},
             !.creates = @ + 1]

DuplicateCode(ds, answer) ==
  answer = "duplicate" \/ ds.discountCode \in RemoteCodes(ds)

createBasicDiscountUnbounded(ds0, answer, timestamp) ==
  LET ds == Submitted(ds0)
  IN IF DuplicateCode(ds, answer)
     THEN IF ds.retryCount < CreateRetries + 1
          THEN createWithRetry([ds EXCEPT !.duplicates = @ + 1],
                               ds.retryCount + 1, timestamp)
          ELSE DiscountDone([ds EXCEPT !.duplicates = @ + 1], "error")
     ELSE IF answer = "created"
     THEN [ds EXCEPT !.pc = "save",
                     !.remote = @ \cup {[title |-> ds.record.title,
                                         code |-> ds.discountCode]}]
     ELSE DiscountDone(ds, "error")

createBasicDiscount(ds0, answer, timestamp) ==
  LET ds == Submitted(ds0)
  IN IF DuplicateCode(ds, answer)
     THEN IF ds.retryCount < CreateRetries
          THEN createWithRetry([ds EXCEPT !.duplicates = @ + 1],
                               ds.retryCount + 1, timestamp)
          ELSE DiscountDone([ds EXCEPT !.duplicates = @ + 1], "error")
     ELSE IF answer = "created"
     THEN [ds EXCEPT !.pc = "save",
                     !.remote = @ \cup {[title |-> ds.record.title,
                                         code |-> ds.discountCode]}]
     ELSE DiscountDone(ds, "error")

createDiscount(ds, answer) ==
  IF answer = "created"
  THEN DiscountDone([ds EXCEPT !.mirror =
                       Append(@, [title |-> ds.record.title,
                                  code |-> ds.discountCode,
                                  shopify_id |-> ds.discountCode])],
                    "success")
  ELSE DiscountDone(ds, "error")

importDiscount(ds0) ==
  LET ds == [ds0 EXCEPT !.value = transformValue(ds0.record),
                        !.creates = 0, !.duplicates = 0]
  IN IF ds.record.discount_type = "percentage" /\ Falsy(ds.value)
     THEN DiscountDone(ds, "error")
     ELSE createWithRetry(ds, 0, 0)

ImportDiscountFirst ==
  /\ shop.discount.run = 0
  /\ \E record \in DiscountRecords :
       shop' = [shop EXCEPT !.discount =
                  importDiscount([@ EXCEPT !.run = 1, !.record = record])]
  /\ UNCHANGED <<importJobManager, drv, polled, retry, startReq>>

ImportDiscountAgain ==
  /\ shop.discount.run = 1
  /\ shop.discount.pc = "done"
  /\ shop' = [shop EXCEPT !.discount = importDiscount([@ EXCEPT !.run = 2])]
  /\ UNCHANGED <<importJobManager, drv, polled, retry, startReq>>

DiscountCodeBasicCreateReturn ==
  /\ shop.discount.pc = "create"
  /\ \E answer \in Answers \cup {"duplicate"}, timestamp \in Stamps :
       shop' = [shop EXCEPT !.discount =
                  createBasicDiscount(@, answer, timestamp)]
  /\ UNCHANGED <<importJobManager, drv, polled, retry, startReq>>

MirrorCreateReturn ==
  /\ shop.discount.pc = "save"
  /\ \E answer \in Answers :
       shop' = [shop EXCEPT !.discount = createDiscount(@, answer)]
  /\ UNCHANGED <<importJobManager, drv, polled, retry, startReq>>

DiscountSyncNext ==
  \/ ImportDiscountFirst
  \/ ImportDiscountAgain
  \/ DiscountCodeBasicCreateReturn
  \/ MirrorCreateReturn

SpecDiscountSync == Init /\ [][DiscountSyncNext]_vars

(***************************************************************************)
(* Reading a metaobject: every field's stored string is decoded by the     *)
(* field's declared type.  A decoded value is a string, a number (or NaN), *)
(* a boolean or a JSON value, kept here as the text it was parsed from.    *)
(***************************************************************************)
MaxFields == 1

MaxTextLen == 2

FieldKeys == <<"k1", "k2", "k3">>

FieldTypes ==
  {"json", "list.single_line_text_field", "boolean", "number_integer",
   "number_decimal", "single_line_text_field"}

FieldChars == {"0", "1", ".", "a", "[", "]"}

RECURSIVE Texts(_)
Texts(n) ==
  IF n = 0
  THEN {<<>>}
  ELSE {<<>>} \cup {<<c>> \o t : c \in FieldChars, t \in Texts(n - 1)}

TrueText == <<"t", "r", "u", "e">>

FieldTexts == Texts(MaxTextLen) \cup {TrueText}

FieldSets(n) ==
  {f \in [1..n -> [key : {FieldKeys[k] : k \in 1..n}, type : FieldTypes,
                   value : FieldTexts]] :
     \A k \in 1..n : f[k].key = FieldKeys[k]}

Decoded(kind, number, text) ==
  [kind |-> kind, number |-> number, text |-> text]

JsonNumber(t) ==
  LET n1 == LeadingDigits(t)
      rest == SubSeq(t, n1 + 1, Len(t))
  IN /\ n1 >= 1
     /\ (t[1] = "0" => n1 = 1)
     /\ \/ rest = <<>>
        \/ /\ rest[1] = "."
           /\ Len(rest) >= 2
           /\ LeadingDigits(Tail(rest)) = Len(rest) - 1

RECURSIVE JsonValue(_)
JsonValue(t) ==
  \/ t = TrueText
  \/ JsonNumber(t)
  \/ /\ Len(t) >= 2
     /\ t[1] = "["
     /\ t[Len(t)] = "]"
     /\ (Len(t) = 2 \/ JsonValue(SubSeq(t, 2, Len(t) - 1)))

parseInt(text) ==
  LET t == trimStart(text)
      n == LeadingDigits(t)
  IN IF n = 0 THEN NaN ELSE Number(DigitsValue(SubSeq(t, 1, n)), 0)

parseField(f) ==
  LET raw == Decoded("string", NaN, f.value)
  IN IF f.type \in {"json", "list.single_line_text_field"}
     THEN IF JsonValue(f.value)
          THEN Decoded("json", NaN, f.value)
          ELSE raw
     ELSE IF f.type = "boolean"
     THEN Decoded(IF f.value = TrueText THEN "true" ELSE "false", NaN, <<>>)
     ELSE IF f.type = "number_integer"
     THEN Decoded("number", parseInt(f.value), <<>>)
     ELSE IF f.type = "number_decimal"
     THEN Decoded("number", parseFloat(f.value), <<>>)
     ELSE raw

parseMetaobjectFields(fields) ==
  [key \in {fields[j].key : j \in 1..Len(fields)} |->
     parseField(fields[CHOOSE j \in 1..Len(fields) : fields[j].key = key])]

ReadMetaobject ==
  /\ shop.read.fields = <<>>
  /\ \E n \in 1..MaxFields :
       \E fields \in FieldSets(n) :
         shop' = [shop EXCEPT !.read = [fields |-> fields,
                                        data |-> parseMetaobjectFields(fields)]]
  /\ UNCHANGED <<importJobManager, drv, polled, retry, startReq>>

SpecRead == Init /\ [][ReadMetaobject]_vars

(***************************************************************************)
(* Document handles, character by character: lower-case, every character   *)
(* that is not a lower-case letter or digit becomes '-', the parts are     *)
(* joined by '-' and the result is cut at 64 characters.  importCompanies  *)
(* derives one handle from each (company_id, location_id) it saves.        *)
(***************************************************************************)
MaxIdLen == 2

HandleLimit == 64

IdChars == {"a", "A", "-"}

RECURSIVE IdTexts(_)
IdTexts(n) ==
  IF n = 0
  THEN {<<>>}
  ELSE {<<>>} \cup {<<c>> \o t : c \in IdChars, t \in IdTexts(n - 1)}

Identifiers == IdTexts(MaxIdLen) \ {<<>>}

lowerCase(c) == IF c = "A" THEN "a" ELSE c

LowerAlphanumerics == {"a", "c", "l", "o"}

clean(text) ==
  [j \in 1..Len(text) |->
     IF lowerCase(text[j]) \in LowerAlphanumerics
     THEN lowerCase(text[j]) ELSE "-"]

substring(text, from, to) == SubSeq(text, from + 1, Min(to, Len(text)))

handleText(prefix, id, subId) ==
  LET cleanSubId == IF subId # <<>> THEN clean(subId) ELSE <<>>
  IN substring(clean(prefix) \o <<"-">> \o clean(id)
                 \o (IF cleanSubId # <<>>
                     THEN <<"-">> \o cleanSubId ELSE <<>>),
               0, HandleLimit)

locationHandle(company_id, location_id) ==
  handleText(<<"l", "o", "c">>, company_id, location_id)

SaveLocationDocument ==
  /\ shop.handles = <<>>
  /\ \E company_id \in Identifiers, location_id \in Identifiers :
       shop' = [shop EXCEPT !.handles =
                  <<[company_id |-> company_id, location_id |-> location_id,
                     handle |-> locationHandle(company_id, location_id)]>>]
  /\ UNCHANGED <<importJobManager, drv, polled, retry, startReq>>

SpecHandle == Init /\ [][SaveLocationDocument]_vars

(***************************************************************************)
(* Collection synchronisation: saveCollectionLocally as the import route   *)
(* calls it (preventUpdate), one task per record.  Tasks of one import     *)
(* overlap, each parked at one await at a time; a task of a second import  *)
(* starts when the first import's tasks are done.  The store keeps the     *)
(* handle asked for with every collection and document it created, and     *)
(* refuses a second definition of one type.                                *)
(***************************************************************************)
MaxTasks == 2

Handles == {"summer", "winter"}

Task(handle, after) ==
  [pc |-> "check", handle |-> handle, after |-> after, outcome |-> "none",
   issued |-> {}]

TaskDone(c, t, outcome) ==
  [c EXCEPT !.tasks[t].pc = "done", !.tasks[t].outcome = outcome]

Fault(c) == [c EXCEPT !.faults = @ + 1]

Await(c, t, pc) == [c EXCEPT !.tasks[t].pc = pc]

IssueCreate(c, t, op) ==
  Await([c EXCEPT !.tasks[t].issued = @ \cup {op}], t, op)

Held(store, handle) == \E j \in 1..Len(store) : store[j] = handle

metaHandle(task) == generateMetaobjectHandle("col", task.handle, "")

ensureMetaobjectDefinition(c, t, lookup) ==
  IF lookup = "throws"
  THEN TaskDone(Fault(c), t, "error")
  ELSE IF c.definition
  THEN Await(c, t, "getMetaobjectByHandle")
  ELSE Await([c EXCEPT !.definitionCreates = @ + 1],
             t, "metaobjectDefinitionCreate")

saveCollectionLocally(c, t, lookup) ==
  IF lookup = "throws"
  THEN IssueCreate(Fault(c), t, "collectionCreate")
  ELSE IF Held(c.collections, c.tasks[t].handle)
  THEN TaskDone(c, t, "existsInShopify")
  ELSE IssueCreate(c, t, "collectionCreate")

createCollection(c, t, answer) ==
  IF answer = "created"
  THEN Await([c EXCEPT !.collections = Append(@, c.tasks[t].handle)],
             t, "metaobjectDefinitionByType")
  ELSE TaskDone(Fault(c), t, "error")

metaobjectDefinitionCreate(c, t) ==
  IF c.definition
  THEN TaskDone(c, t, "definitionTaken")
  ELSE Await([c EXCEPT !.definition = TRUE], t, "getMetaobjectByHandle")

upsertCollectionDocument(c, t, lookup) ==
  IF lookup = "throws"
  THEN TaskDone(Fault(c), t, "error")
  ELSE IF Held(c.documents, metaHandle(c.tasks[t]))
  THEN TaskDone(c, t, "existsLocally")
  ELSE IssueCreate(c, t, "metaobjectCreate")

createCollectionDocument(c, t, answer) ==
  IF answer = "created"
  THEN TaskDone([c EXCEPT !.documents = Append(@, metaHandle(c.tasks[t]))],
                t, "created")
  ELSE TaskDone(Fault(c), t, "error")

ImportCollection ==
  /\ Len(shop.collection.tasks) < MaxTasks
  /\ \E handle \in Handles :
       LET tasks == shop.collection.tasks
           done == {t \in 1..Len(tasks) : tasks[t].pc = "done"}
       IN /\ tasks = <<>> => handle = "summer"
          /\ shop' = [shop EXCEPT !.collection.tasks =
                        Append(@, Task(handle, done))]
  /\ UNCHANGED <<importJobManager, drv, polled, retry, startReq>>

CollectionByHandleReturn ==
  /\ \E t \in 1..Len(shop.collection.tasks), lookup \in {"answers", "throws"} :
       /\ shop.collection.tasks[t].pc = "check"
       /\ shop' = [shop EXCEPT !.collection =
                     saveCollectionLocally(@, t, lookup)]
  /\ UNCHANGED <<importJobManager, drv, polled, retry, startReq>>

CollectionCreateReturn ==
  /\ \E t \in 1..Len(shop.collection.tasks), answer \in Answers :
       /\ shop.collection.tasks[t].pc = "collectionCreate"
       /\ shop' = [shop EXCEPT !.collection =
                     createCollection(@, t, answer)]
  /\ UNCHANGED <<importJobManager, drv, polled, retry, startReq>>

DefinitionByTypeReturn ==
  /\ \E t \in 1..Len(shop.collection.tasks), lookup \in {"answers", "throws"} :
       /\ shop.collection.tasks[t].pc = "metaobjectDefinitionByType"
       /\ shop' = [shop EXCEPT !.collection =
                     ensureMetaobjectDefinition(@, t, lookup)]
  /\ UNCHANGED <<importJobManager, drv, polled, retry, startReq>>

DefinitionCreateReturn ==
  /\ \E t \in 1..Len(shop.collection.tasks) :
       /\ shop.collection.tasks[t].pc = "metaobjectDefinitionCreate"
       /\ shop' = [shop EXCEPT !.collection =
                     metaobjectDefinitionCreate(@, t)]
  /\ UNCHANGED <<importJobManager, drv, polled, retry, startReq>>

MetaobjectByHandleReturn ==
  /\ \E t \in 1..Len(shop.collection.tasks), lookup \in {"answers", "throws"} :
       /\ shop.collection.tasks[t].pc = "getMetaobjectByHandle"
       /\ shop' = [shop EXCEPT !.collection =
                     upsertCollectionDocument(@, t, lookup)]
  /\ UNCHANGED <<importJobManager, drv, polled, retry, startReq>>

MetaobjectCreateReturn ==
  /\ \E t \in 1..Len(shop.collection.tasks), answer \in Answers :
       /\ shop.collection.tasks[t].pc = "metaobjectCreate"
       /\ shop' = [shop EXCEPT !.collection =
                     createCollectionDocument(@, t, answer)]
  /\ UNCHANGED <<importJobManager, drv, polled, retry, startReq>>

CollectionSyncNext ==
  \/ ImportCollection
  \/ CollectionByHandleReturn
  \/ CollectionCreateReturn
  \/ DefinitionByTypeReturn
  \/ DefinitionCreateReturn
  \/ MetaobjectByHandleReturn
  \/ MetaobjectCreateReturn

SpecCollectionSync == Init /\ [][CollectionSyncNext]_vars

(***************************************************************************)
(* Properties                                                              *)
(***************************************************************************)
LastCall == importJobManager.lastCall

StatusNow(id) == StatusOf(importJobManager, id)

TheJob == importJobManager.jobs[drv.jobId]

DriverCancelled == StatusNow(drv.jobId) = "cancelled"

(* C1: once a job's status is completed, failed or cancelled, an           *)
(* updateProgress or completeJob call leaves the status as it was.         *)
C1_TerminalStatusKept ==
  (LastCall.op \in {"updateProgress", "completeJob"}
     /\ LastCall.before \in Terminal)
    => StatusNow(LastCall.id) = LastCall.before

(* C2: an updateProgress or completeJob call on a cancelled job leaves it  *)
(* cancelled, whatever the processed count, and cancelJob on a pending or  *)
(* processing job leaves it cancelled.                                     *)
C2_CancelledSticky ==
  /\ (LastCall.op \in {"updateProgress", "completeJob"}
        /\ LastCall.before = "cancelled")
       => StatusNow(LastCall.id) = "cancelled"
  /\ (LastCall.op = "cancelJob" /\ LastCall.before \in {"pending", "processing"})
       => StatusNow(LastCall.id) = "cancelled"

C2_Witness ==
  /\ LastCall.op = "updateProgress"
  /\ LastCall.before = "cancelled"
  /\ HasJob(importJobManager, LastCall.id)
  /\ importJobManager.jobs[LastCall.id].processedRecords
       >= importJobManager.jobs[LastCall.id].totalRecords
  /\ StatusNow(LastCall.id) = "cancelled"

(* C3: cancelJob on a job whose status is completed leaves it completed.   *)
C3_CancelCompletedIsNoop ==
  (LastCall.op = "cancelJob" /\ LastCall.before = "completed")
    => StatusNow(LastCall.id) = "completed"

(* C4: a job that is cancelled stays cancelled under every ledger call a   *)
(* driver or a route makes: updateProgress, completeJob, failJob,          *)
(* cancelJob.                                                              *)
C4_CancelledIsTerminal ==
  LastCall.before = "cancelled" => StatusNow(LastCall.id) = "cancelled"

(* C5: in the collection, discount and metaobject drivers, while the job   *)
(* is cancelled no further record (or batch) is started, and every         *)
(* started record that is no longer in flight has been reported through    *)
(* updateProgress (a metaobject batch is reported when it has settled).    *)
CancellableKinds == {"collections", "discounts", "metaobjects"}

ReportedAll ==
  TheJob.processedRecords =
    IF drv.kind = "metaobjects"
    THEN Cardinality(drv.started)
           - (IF drv.pc = "batch" THEN Cardinality(BatchOf(drv)) ELSE 0)
    ELSE Cardinality(drv.started \ drv.activePromises)

C5_NoLaunchAfterCancel ==
  [][(drv.kind \in CancellableKinds /\ DriverCancelled)
       => (drv'.started = drv.started /\ ReportedAll')]_vars

C5_Witness ==
  /\ drv.kind = "collections"
  /\ drv.pc = "done"
  /\ DriverCancelled
  /\ LastCall.op = "updateProgress"
  /\ LastCall.before = "cancelled"
  /\ Cardinality(drv.started) < Len(drv.records)
  /\ TheJob.processedRecords = Cardinality(drv.started)

(* C6: in the company driver, while the job is cancelled no further        *)
(* company group is started.                                               *)
C6_NoGroupAfterCancel ==
  [][(drv.kind = "companies" /\ DriverCancelled)
       => drv'.started = drv.started]_vars

(* C7: every job that was created eventually has a terminal status.        *)
C7_EveryJobTerminates ==
  \A id \in JobIds :
    HasJob(importJobManager, id) ~> (StatusNow(id) \in Terminal)

C7_Witness ==
  /\ drv.kind # "none"
  /\ drv.pc = "done"
  /\ StatusNow(drv.jobId) = "completed"
  /\ Len(drv.records) >= 2

(* C8: processedRecords, successCount and errorCount of a job never        *)
(* decrease, and neither do the progress, successCount and errorCount of   *)
(* successive status responses.                                            *)
C8_CountersMonotone ==
  [][/\ \A id \in DOMAIN importJobManager.jobs :
          /\ importJobManager'.jobs[id].processedRecords
               >= importJobManager.jobs[id].processedRecords
          /\ importJobManager'.jobs[id].successCount
               >= importJobManager.jobs[id].successCount
          /\ importJobManager'.jobs[id].errorCount
               >= importJobManager.jobs[id].errorCount
     /\ polled.status # "none"
          => /\ polled'.progress >= polled.progress
             /\ polled'.successCount >= polled.successCount
             /\ polled'.errorCount >= polled.errorCount]_vars

C8_Witness ==
  /\ polled.status = "processing"
  /\ polled.progress > 0
  /\ polled.successCount > 0
  /\ polled.errorCount > 0
  /\ StatusResponse(TheJob).progress > polled.progress

(* C9: processedRecords never exceeds totalRecords, and the progress of    *)
(* a status response lies in 0..100.                                       *)
C9_ProcessedWithinTotal ==
  /\ \A id \in DOMAIN importJobManager.jobs :
       /\ importJobManager.jobs[id].processedRecords
            <= importJobManager.jobs[id].totalRecords
       /\ StatusResponse(importJobManager.jobs[id]).progress \in 0..100
  /\ polled.progress \in 0..100

C9_Witness ==
  /\ drv.kind = "metaobjects"
  /\ Len(drv.records) > BATCH_SIZE
  /\ TheJob.processedRecords = TheJob.totalRecords
  /\ polled.progress = 100

(* C10: in the collection driver the ledger's processedRecords is the      *)
(* number of record tasks that have finished, successCount + errorCount    *)
(* equals it, and once the driver is done it is the number of tasks        *)
(* launched.                                                               *)
C10_NoLostUpdate ==
  drv.kind = "collections"
    => /\ TheJob.processedRecords
            = Cardinality(drv.started \ drv.activePromises)
       /\ TheJob.successCount + TheJob.errorCount = TheJob.processedRecords
       /\ drv.pc = "done"
            => TheJob.processedRecords = Cardinality(drv.started)

C10_Witness ==
  /\ drv.kind = "collections"
  /\ drv.pc = "done"
  /\ Len(drv.records) = 3
  /\ TheJob.processedRecords = 3
  /\ Len(TheJob.results) = 3
  /\ TheJob.results[1].title = Titles[3]
  /\ TheJob.results[3].title = Titles[1]

(* C11: the record tasks of a job that are in flight at one time number   *)
(* at most CONCURRENCY_LIMIT in the collection driver, BATCH_SIZE in the   *)
(* metaobject driver and one in the discount driver.                       *)
C11_ConcurrencyCeiling ==
  /\ drv.kind = "collections"
       => Cardinality(drv.activePromises) <= CONCURRENCY_LIMIT
  /\ drv.kind = "metaobjects"
       => Cardinality(drv.activePromises) <= BATCH_SIZE
  /\ drv.kind = "discounts"
       => Cardinality(drv.activePromises) <= 1

C11_Witness ==
  /\ drv.kind = "collections"
  /\ drv.pc = "race"
  /\ Cardinality(drv.activePromises) = CONCURRENCY_LIMIT
  /\ Cardinality(drv.started) > CONCURRENCY_LIMIT
  /\ TheJob.processedRecords > 0

(* C12: in the collection driver the job's results are exactly the         *)
(* entries the record tasks pushed, each once: an updateProgress call for  *)
(* a finished record appends that record's own entry or nothing.           *)
C12_OneEntryPerRecord ==
  drv.kind = "collections" => TheJob.results = drv.results

(* C13: a record's failure neither fails the job nor stops the batch.      *)
(* failJob is called, and a job is failed, only when the discount          *)
(* driver's permission check failed before any record was started; and a   *)
(* driver that has finished a job that is neither cancelled nor failed     *)
(* has started every record (every company group).                         *)
AllUnits ==
  IF drv.kind = "companies" THEN 1..Len(drv.groups) ELSE 1..Len(drv.records)

C13_RecordFailureIsLocal ==
  drv.kind # "none"
    => /\ (LastCall.op = "failJob" \/ StatusNow(drv.jobId) = "failed")
            => (drv.kind = "discounts" /\ drv.started = {})
       /\ (drv.pc = "done" /\ StatusNow(drv.jobId) \notin {"cancelled", "failed"})
            => drv.started = AllUnits

C13_Witness ==
  /\ drv.kind = "discounts"
  /\ drv.pc = "done"
  /\ Len(drv.records) = 3
  /\ drv.started = 1..3
  /\ TheJob.status = "completed"
  /\ TheJob.results[1].status = "error"
  /\ TheJob.results[3].status = "success"

(* C14: a job whose records were all started and none succeeded is never   *)
(* failed, and once its driver is done it is completed unless cancelled.   *)
EveryRecordFailed ==
  /\ drv.kind # "none"
  /\ Len(drv.records) > 0
  /\ drv.started = AllUnits
  /\ drv.activePromises = {}
  /\ drv.successCount = 0

C14_AllFailuresStillCompleted ==
  EveryRecordFailed
    => /\ StatusNow(drv.jobId) # "failed"
       /\ (drv.pc = "done" /\ ~DriverCancelled)
            => StatusNow(drv.jobId) = "completed"

C14_Witness ==
  /\ EveryRecordFailed
  /\ drv.kind = "discounts"
  /\ drv.pc = "done"
  /\ TheJob.errorCount = 3
  /\ TheJob.status = "completed"

(* C15: in withRetry and createShopifyCompany an attempt that ended with   *)
(* a validation error (userErrors outside the rate-limit class) is the     *)
(* last attempt of the call, and the call throws.                          *)
C15_ValidationErrorNotRetried ==
  \A k \in 1..Len(retry.history) :
    retry.history[k] = "invalid"
      => /\ k = Len(retry.history)
         /\ retry.pc = "done"
         /\ retry.result = "thrown"

(* C16: withRetry terminates: it never issues the operation more than      *)
(* maxRetries + 1 times, every call eventually returns or throws, and an   *)
(* operation that keeps failing with a rate-limit error is issued exactly  *)
(* maxRetries times before the call throws.                                *)
OnlyRateLimited ==
  /\ retry.fn = "withRetry"
  /\ retry.history # <<>>
  /\ \A k \in 1..Len(retry.history) : retry.history[k] = "rate"

C16_WithRetryBounded ==
  /\ retry.calls <= maxRetries + 1
  /\ OnlyRateLimited
       => /\ retry.calls <= maxRetries
          /\ retry.pc = "done"
               <=> (retry.calls = maxRetries /\ retry.result = "thrown")

C16_WithRetryTerminates ==
  /\ []C16_WithRetryBounded
  /\ (retry.fn = "withRetry") ~> (retry.pc = "done")

C16_Witness ==
  /\ OnlyRateLimited
  /\ retry.pc = "done"
  /\ retry.calls = maxRetries
  /\ retry.result = "thrown"

(* C17: when the discount driver's permission check fails, no record is    *)
(* started, the job is failed, its results are the one System Error        *)
(* entry and its counters are zero.  (The status is read when failJob      *)
(* returns; the record of the job stays as described from then on.)        *)
PermissionFailed ==
  /\ drv.kind = "discounts"
  /\ \E k \in 1..Len(TheJob.results) : TheJob.results[k] = SystemError

C17_PermissionFailureFailsJob ==
  /\ (drv.kind = "discounts" /\ LastCall.op = "failJob")
       => (TheJob.status = "failed" /\ PermissionFailed)
  /\ PermissionFailed
       => /\ drv.started = {}
          /\ drv.pc = "done"
          /\ TheJob.results = <<SystemError>>
          /\ TheJob.processedRecords = 0
          /\ TheJob.successCount = 0
          /\ TheJob.errorCount = 0
          /\ TheJob.status \in {"failed", "cancelled"}

C17_Witness ==
  /\ PermissionFailed
  /\ LastCall.op = "failJob"
  /\ LastCall.before = "pending"
  /\ Len(drv.records) = 3
  /\ TheJob.status = "failed"

(* C18: a start request whose first record's keys include at least two     *)
(* distinctive header names of another entity family is rejected, the      *)
(* validator names that family, and no job is created.                     *)
Family(route) ==
  CASE route = "collections" -> "collection"
    [] route = "discounts" -> "discount"
    [] route = "companies" -> "company"

Distinctive(route, family) ==
  CASE family = "collection" -> collectionHeaders
    [] family = "discount" -> discountHeaders(route)
    [] family = "company" -> companyHeaders(route)

C18_ForeignHeadersRejected ==
  \A family \in {"collection", "discount", "company"} :
    (/\ startReq.route \in Routes
     /\ family # Family(startReq.route)
     /\ Matches(Distinctive(startReq.route, family), startReq.headers) >= 2)
      => /\ startReq.response = "rejected"
         /\ startReq.detectedType = family
         /\ importJobManager.jobs = <<>>
         /\ drv = NoDriver

(* C19: a second run of importCompanies over the same rows issues no       *)
(* companyCreate, no companyLocationCreate and no document create, and     *)
(* handles every location as an update of its document.                    *)
Creates == {"companyCreate", "companyLocationCreate", "metaobjectCreate"}

ResultsOf(row) ==
  {shop.results[j].action :
     j \in {j \in 1..Len(shop.results) :
              /\ shop.results[j].company_id = row.company_id
              /\ shop.results[j].location_id = row.location_id}}

StoreBefore(op) ==
  CASE op = "companyCreate" -> shop.before.companies
    [] op = "companyLocationCreate" -> shop.before.locations
    [] op = "metaobjectCreate" -> shop.before.documents

HandleOf(row) ==
  generateMetaobjectHandle("loc", row.company_id, row.location_id)

C20_OneDiscountOneDocument ==
  shop.discount.run = 2 =>
    /\ Cardinality(shop.discount.remote) <= 1
    /\ Len(shop.discount.mirror) <= 1
    /\ shop.discount.outcomes = <<"success", "success">> =>
         /\ Cardinality(shop.discount.remote) = 1
         /\ Len(shop.discount.mirror) = 1

(* C22: two rows of one company that does not exist remotely, with         *)
(* different location ids and every remote call succeeding: one            *)
(* companyCreate carrying the first row's location, one                    *)
(* companyLocationCreate for the second row issued only once the company   *)
(* exists, two location documents and two successes.                       *)
TwoLocations ==
  /\ shop.run = 1
  /\ Len(shop.records) = 2
  /\ shop.records[1].company_id = shop.records[2].company_id
  /\ shop.records[1].location_id # shop.records[2].location_id
  /\ shop.faults = 0

KeyOf(row) == <<row.company_id, row.location_id>>

C22_OneCompanyTwoLocations ==
  TwoLocations =>
    LET first == shop.records[1]
        second == shop.records[2]
    IN /\ Mutation("companyLocationCreate", KeyOf(first)) \notin shop.issued
       /\ Mutation("companyLocationCreate", KeyOf(second)) \in shop.issued
            => /\ Mutation("companyCreate", first.company_id) \in shop.issued
               /\ KeyOf(first) \in shop.locations
       /\ shop.pc = "done" =>
            /\ Mutation("companyCreate", first.company_id) \in shop.issued
            /\ Mutation("companyLocationCreate", KeyOf(second)) \in shop.issued
            /\ shop.locations = {KeyOf(first), KeyOf(second)}
            /\ Cardinality(shop.documents) = 2
            /\ Len(shop.results) = 2
            /\ \A j \in 1..2 : shop.results[j].action \in {"created", "updated"}

(* C23: a group whose company step obtained no remote company id has no    *)
(* companyLocationCreate and no document create or update issued for its   *)
(* locations, has exactly one 'skipped' result for each of its rows, and   *)
(* the import goes on with the next group.                                 *)
RowsOf(j) == {shop.groups[j].locations[n] : n \in 1..Len(shop.groups[j].locations)}

ResultCount(row, action) ==
  Cardinality({n \in 1..Len(shop.results) :
                 /\ shop.results[n].company_id = row.company_id
                 /\ shop.results[n].location_id = row.location_id
                 /\ shop.results[n].action = action})

SameRows(j, row) == Cardinality({k \in RowsOf(j) : shop.records[k] = row})

C23_FailedCompanySkipsLocations ==
  \A j \in 1..Len(shop.companySteps) :
    shop.companySteps[j].outcome \in {"none", "threw"} =>
      /\ shop.g > j
      /\ \A k \in RowsOf(j) :
           LET row == shop.records[k]
           IN /\ Mutation("companyLocationCreate", KeyOf(row)) \notin shop.issued
              /\ Mutation("metaobjectCreate", HandleOf(row)) \notin shop.issued
              /\ Mutation("metaobjectUpdate", HandleOf(row)) \notin shop.issued
              /\ ResultCount(row, "skipped") = SameRows(j, row)

(* C24: a companyCreate refused for a taken email, followed by a lookup    *)
(* by email that returns a company with the record's externalId, yields    *)
(* that company with isNew false, and the rows of the group are reported   *)
(* as successes unless a document call of their own failed.                *)
DocumentFault(row) ==
  \/ Mutation("getMetaobjectByHandle", HandleOf(row)) \in shop.unanswered
  \/ Mutation("metaobjectCreate", HandleOf(row)) \in shop.rejected
  \/ Mutation("metaobjectUpdate", HandleOf(row)) \in shop.rejected

C24_EmailConflictRecovered ==
  \A j \in 1..Len(shop.companySteps) :
    shop.companySteps[j].outcome = "emailOfExternalId" =>
      /\ ~shop.companySteps[j].isNew
      /\ Mutation("companyCreate", shop.groups[j].company_id) \in shop.rejected
      /\ \A k \in RowsOf(j) :
           LET row == shop.records[k]
           IN /\ ResultCount(row, "skipped") = 0
              /\ (shop.g > j /\ ~DocumentFault(row)) =>
                   /\ ResultCount(row, "failed") = 0
                   /\ ResultCount(row, "created") + ResultCount(row, "updated")
                        = SameRows(j, row)

C24_Witness ==
  /\ shop.pc = "done"
  /\ Len(shop.records) = 2
  /\ shop.records[1].company_id = shop.records[2].company_id
  /\ HandleOf(shop.records[1]) # HandleOf(shop.records[2])
  /\ shop.companySteps = <<[outcome |-> "emailOfExternalId", isNew |-> FALSE]>>
  /\ Len(shop.results) = 2
  /\ \A j \in 1..2 : shop.results[j].action \in {"created", "updated"}

(* C25: createJob yields a pending job with zero counters and no results;  *)
(* the first updateProgress on a pending job leaves it processing, or      *)
(* completed exactly when processed >= totalRecords.                       *)
CalledJob == importJobManager.jobs[LastCall.id]

C25_PendingThenProcessing ==
  /\ LastCall.op = "createJob" =>
       /\ CalledJob.status = "pending"
       /\ CalledJob.processedRecords = 0
       /\ CalledJob.successCount = 0
       /\ CalledJob.errorCount = 0
       /\ CalledJob.results = <<>>
  /\ (LastCall.op = "updateProgress" /\ LastCall.before = "pending") =>
       /\ CalledJob.status \in {"processing", "completed"}
       /\ CalledJob.status = "completed"
            <=> CalledJob.processedRecords >= CalledJob.totalRecords

C25_Witness ==
  /\ LastCall.op = "updateProgress"
  /\ LastCall.before = "pending"
  /\ CalledJob.totalRecords > 0
  /\ CalledJob.processedRecords < CalledJob.totalRecords
  /\ CalledJob.status = "processing"

(* C26: the results of a job are append-only: across every ledger          *)
(* operation the results the job had are a prefix of the results it has.   *)
IsPrefix(old, new) ==
  /\ Len(old) <= Len(new)
  /\ \A n \in 1..Len(old) : old[n] = new[n]

C26_ResultsAppendOnly ==
  [][\A id \in DOMAIN importJobManager.jobs :
       IsPrefix(importJobManager.jobs[id].results,
                importJobManager'.jobs[id].results)]_vars

C26_Witness ==
  /\ LastCall.op = "updateProgress"
  /\ HasJob(importJobManager, LastCall.id)
  /\ Len(CalledJob.results) = MaxResults
  /\ CalledJob.results[1] = SystemError
  /\ CalledJob.results[MaxResults] # SystemError

ErrorEntries(results) ==
  {j \in 1..Len(results) :
     results[j].status = "error" /\ results[j] # SystemError}

FailedCollections ==
  {k \in drv.started \ drv.activePromises : drv.records[k].remote = "error"}

TitleShown(record) == IF record.title = "" THEN "Unknown" ELSE record.title

RecordedFailures ==
  IF drv.kind = "companies"
  THEN Len(RowErrors(drv.records))
         + Len(SelectSeq(drv.importResults, LAMBDA r : ~r.success))
  ELSE drv.errorCount

Numeral(t) ==
  /\ \A j \in 1..Len(t) : t[j] \in Digits \cup {"."}
  /\ Cardinality({j \in 1..Len(t) : t[j] = "."}) <= 1
  /\ \E j \in 1..Len(t) : t[j] \in Digits

Denoted(t) ==
  LET point == {j \in 1..Len(t) : t[j] = "."}
  IN Number(DigitsValue(SelectSeq(t, LAMBDA c : c \in Digits)),
            IF point = {} THEN 0 ELSE Len(t) - (CHOOSE j \in point : TRUE))

(* C28: for a percentage discount whose value column holds the numeral of  *)
(* v, every discountCodeBasicCreate mutation sent carries                  *)
(* customerGets.value.percentage equal to v / 100.                         *)
C28_PercentageIsHundredth ==
  LET record == shop.discount.record
  IN \A sent \in shop.discount.sent :
       (record.discount_type = "percentage" /\ Numeral(trim(record.value))) =>
         LET v == Denoted(trim(record.value))
             p == sent.customerGets.percentage
         IN /\ p.kind = "number"
            /\ p.m * Pow10(v.e) * 100 = v.m * Pow10(p.e)

C28_Witness ==
  /\ shop.discount.run > 0
  /\ shop.discount.record.value = <<"1", "5">>
  /\ \E sent \in shop.discount.sent :
       SameNumber(sent.customerGets.percentage, Number(15, 2))

DecodeFails(f) ==
  \/ f.type \in {"json", "list.single_line_text_field"} /\ ~JsonValue(f.value)
  \/ f.type \in {"number_integer", "number_decimal"} /\ ~Numeral(f.value)

(* C29: every field whose stored string cannot be decoded by its declared  *)
(* type (invalid JSON for a json field, text that is not a number for a    *)
(* number field) has the raw stored string as its value in the document    *)
(* that was read.                                                          *)
C29_UndecodableFieldsStayRaw ==
  \A j \in 1..Len(shop.read.fields) :
    LET f == shop.read.fields[j]
    IN DecodeFails(f) =>
         shop.read.data[f.key] = Decoded("string", NaN, f.value)

(* C30: however many ensureMetaobjectDefinition calls are made for the     *)
(* collection type, overlapping ones from concurrent record tasks          *)
(* included, at most one metaobjectDefinitionCreate is issued and no call  *)
(* fails because the definition exists already.                            *)
C30_AtMostOneDefinitionCreate ==
  /\ shop.collection.definitionCreates <= 1
  /\ \A t \in 1..Len(shop.collection.tasks) :
       shop.collection.tasks[t].outcome # "definitionTaken"

Copies(store, handle) ==
  Cardinality({j \in 1..Len(store) : store[j] = handle})

(* C21: when a collection record is imported again after an import of the  *)
(* same record created it, with every remote call answering, there is one  *)
(* remote collection and one mirror document of that handle and the second *)
(* import is recorded as a successful update.                              *)
C21_SecondImportIsUpdate ==
  LET c == shop.collection
  IN \A t2 \in 1..Len(c.tasks) :
       \A t1 \in c.tasks[t2].after :
         (/\ c.faults = 0
          /\ c.tasks[t2].pc = "done"
          /\ c.tasks[t1].handle = c.tasks[t2].handle
          /\ c.tasks[t1].outcome = "created") =>
           /\ Copies(c.collections, c.tasks[t2].handle) = 1
           /\ Copies(c.documents, metaHandle(c.tasks[t2])) = 1
           /\ c.tasks[t2].outcome = "updated"

Overlapping(c, t1, t2) ==
  /\ t1 # t2
  /\ t1 \notin c.tasks[t2].after
  /\ t2 \notin c.tasks[t1].after

(* C31: two records of one collection import that resolve to the same      *)
(* handle and are processed concurrently, with every remote call           *)
(* answering, never both issue a collectionCreate and never both issue a   *)
(* createMetaobject.                                                       *)
C31_OneCreatePerHandle ==
  LET c == shop.collection
  IN \A t1, t2 \in 1..Len(c.tasks) :
       (/\ Overlapping(c, t1, t2)
        /\ c.tasks[t1].handle = c.tasks[t2].handle
        /\ c.faults = 0) =>
         \A op \in {"collectionCreate", "metaobjectCreate"} :
           ~(op \in c.tasks[t1].issued /\ op \in c.tasks[t2].issued)

(* C32: every retry of the discount create that a duplicate-code answer    *)
(* triggers submits a code different from the code just rejected.          *)
C32_RetrySubmitsNewCode ==
  [][(/\ shop.discount.pc = "create"
      /\ shop'.discount.pc = "create"
      /\ shop'.discount.retryCount = shop.discount.retryCount + 1) =>
       shop'.discount.discountCode # shop.discount.discountCode]_vars

(* C33: the discount create issues at most four create mutations for one   *)
(* record, the first attempt and three retries, and when every one of      *)
(* them was answered with a duplicate-code error the record ends as an     *)
(* error.                                                                  *)
C33_AtMostFourCreates ==
  LET ds == shop.discount
  IN /\ ds.creates <= CreateRetries + 1
     /\ ds.duplicates = CreateRetries + 1 =>
          /\ ds.pc = "done"
          /\ ds.outcomes[Len(ds.outcomes)] = "error"

C33_Witness ==
  /\ shop.discount.run = 1
  /\ shop.discount.creates = CreateRetries + 1
  /\ shop.discount.duplicates = CreateRetries + 1
  /\ shop.discount.pc = "done"
  /\ shop.discount.remote = {}

(* C34: whenever a job's status is completed, its processedRecords equals  *)
(* its totalRecords and the status endpoint reports progress 100.          *)
C34_CompletedIsFullyProcessed ==
  \A id \in DOMAIN importJobManager.jobs :
    LET job == importJobManager.jobs[id]
    IN job.status = "completed" =>
         /\ job.processedRecords = job.totalRecords
         /\ StatusResponse(job).progress = 100

(* C35: when a company import job is completed, the ledger's errorCount    *)
(* equals the number of entries with status 'error' in the job's results.  *)
C35_CompanyErrorCountMatchesEntries ==
  \A id \in DOMAIN importJobManager.jobs :
    LET job == importJobManager.jobs[id]
    IN (job.entityType = "companies" /\ job.status = "completed") =>
         job.errorCount
           = Cardinality({j \in 1..Len(job.results) :
                            job.results[j].status = "error"})

(* C36: a location that importCompanies reports as a success exists        *)
(* remotely; a location whose companyLocationCreate was refused is never   *)
(* reported as a success.                                                  *)
C36_SuccessMeansRemoteLocation ==
  \A j \in 1..Len(shop.results) :
    LET result == shop.results[j]
    IN result.action \in {"created", "updated"} =>
         <<result.company_id, result.location_id>> \in shop.locations

(* C37: two distinct (company_id, location_id) pairs never produce the     *)
(* same location handle: no other pair of identifiers has the handle of    *)
(* the pair that was saved.                                                *)
C37_HandleInjective ==
  \A j \in 1..Len(shop.handles) :
    LET saved == shop.handles[j]
    IN \A company_id \in Identifiers, location_id \in Identifiers :
         <<company_id, location_id>> # <<saved.company_id, saved.location_id>>
           => locationHandle(company_id, location_id) # saved.handle

(* C38, as stated: a company found by the email lookup is linked only if   *)
(* its name equals the record's name case-insensitively or its externalId  *)
(* equals the record's company_id, and a record whose email lookup found   *)
(* any other company ends in an error: its company step ends with no       *)
(* company.                                                                *)
SameCompany(entry) ==
  \/ toLowerCase(entry.foundCompany.name)
       = toLowerCase(companyName([company_id |-> entry.company_id]))
  \/ entry.foundCompany.externalId = entry.company_id

C39_OnlyTheGivenJobChanges ==
  [][LET call == importJobManager'.lastCall
         jobs == importJobManager.jobs
         jobsAfter == importJobManager'.jobs
     IN call.op \in {"updateProgress", "completeJob", "failJob", "cancelJob"}
          => /\ DOMAIN jobsAfter = DOMAIN jobs
             /\ \A id \in DOMAIN jobs :
                  id # call.id => jobsAfter[id] = jobs[id]
             /\ call.id \notin DOMAIN jobs => jobsAfter = jobs]_vars

C39_Witness ==
  /\ DOMAIN importJobManager.jobs = PairIds
  /\ LastCall.op = "failJob"
  /\ LastCall.id = "j1"
  /\ LastCall.before = "processing"
  /\ importJobManager.jobs["j1"].status = "failed"
  /\ importJobManager.jobs["j2"].status = "processing"
  /\ importJobManager.jobs["j2"].results = <<Entry(Titles[1], "success")>>

====
